---------------------------- MODULE Spec2Model ----------------------------
(***************************************************************************)
(* State-machine model of DataVisualizationApp                              *)
(* (src/data_visualization_app.py): the table view index (paging, search),  *)
(* the chart-kind recommendation and the chart preparation pipeline.        *)
(*                                                                          *)
(* A DataFrame is a record [some, columns, index, data]: `columns` the      *)
(* column names, `index` the row labels, `data` the rows, each a tuple of   *)
(* cells.  A cell is a number, a string (a tuple of one-character strings)  *)
(* or a missing value (NaN); a column name is a string, "" when unset.     *)
(*   Python's None / a missing attribute is the    *)
(* frame None, whose `some` is FALSE.                                       *)
(***************************************************************************)
EXTENDS Integers, Sequences, FiniteSets, TLC

VARIABLES
    df,             \* self.df: the active table, or None
    sampled_df,     \* self.sampled_df: the row sample taken by load_csv, or None
    filtered_df,    \* self.filtered_df: the search filter; None when the attribute is absent
    current_page,   \* self.current_page
    rows_per_page,  \* self.rows_per_page
    total_pages,    \* self.total_pages
    search_var,     \* self.search_var: the text of the search box
    tree,           \* self.tree: the rows on display in the data view
    x_column,       \* self.x_column
    y_column,       \* self.y_column
    chart_type,     \* self.chart_type
    plot_frame,     \* self.plot_frame: the chart on display, or NoPlot
    msg,            \* the messagebox the last handler showed
    last            \* the last handler that ran, with its inputs and the stages it entered

vars == <<df, sampled_df, filtered_df, current_page, rows_per_page, total_pages,
          search_var, tree, x_column, y_column, chart_type, plot_frame, msg, last>>

viewVars == <<filtered_df, current_page, rows_per_page, total_pages, search_var, tree>>

chartVars == <<x_column, y_column, chart_type, plot_frame>>

(***************************************************************************)
(* Bounds of the model.                                                     *)
(***************************************************************************)
\* rows of the larger table of the view catalogue
ViewRows == 23
\* rows of the smaller table of the view catalogue
SmallRows == 4
\* distance between the page sizes the rows-per-page dialog is answered with
SizeStep == 5

(***************************************************************************)
(* Program constants.                                                       *)
(***************************************************************************)
DefaultRowsPerPage == 50
MinRowsPerPage == 10
MaxRowsPerPage == 200
SampleCap == 1000
SampleSeed == 42
TruncateAt == 50
TruncateKeep == 47

(***************************************************************************)
(* Cells and their conversions.                                             *)
(***************************************************************************)
\* a number n/d (d = 1 for the integers a table holds), a string, a missing value
Num(n) == [k |-> "num", n |-> n, d |-> 1, s |-> <<>>]
Str(s) == [k |-> "str", n |-> 0, d |-> 1, s |-> s]
NaN == [k |-> "nan", n |-> 0, d |-> 1, s |-> <<>>]

DigitChars == <<"0", "1", "2", "3", "4", "5", "6", "7", "8", "9">>

RECURSIVE NatDigits(_)
\* str(n) for n >= 0
NatDigits(n) ==
    IF n < 10 THEN <<DigitChars[n + 1]>>
    ELSE NatDigits(n \div 10) \o <<DigitChars[(n % 10) + 1]>>

\* str(n) for an integer
IntDigits(n) == IF n < 0 THEN <<"-">> \o NatDigits(-n) ELSE NatDigits(n)

\* str(val) / astype(str) of one cell: a missing value reads "nan"
StrForm(c) ==
    CASE c.k = "num" -> IntDigits(c.n)
      [] c.k = "str" -> c.s
      [] OTHER -> <<"n", "a", "n">>

\* str.lower() on one character
LowerChar(ch) ==
    CASE ch = "A" -> "a"
      [] ch = "B" -> "b"
      [] ch = "C" -> "c"
      [] ch = "Z" -> "z"
      [] OTHER -> ch

\* str.lower()
Lower(s) == [i \in 1..Len(s) |-> LowerChar(s[i])]

IsSpace(ch) == ch = " "

RECURSIVE LStrip(_)
LStrip(s) == IF s # <<>> /\ IsSpace(Head(s)) THEN LStrip(Tail(s)) ELSE s

RECURSIVE RStrip(_)
RStrip(s) ==
    IF s # <<>> /\ IsSpace(s[Len(s)]) THEN RStrip(SubSeq(s, 1, Len(s) - 1)) ELSE s

\* str.strip()
Strip(s) == RStrip(LStrip(s))

\* Python's `t in s` on strings
Contains(s, t) ==
    \E i \in 0..(Len(s) - Len(t)) : SubSeq(s, i + 1, i + Len(t)) = t

DigitValue(ch) == CHOOSE d \in 0..9 : DigitChars[d + 1] = ch

IsDigit(ch) == \E d \in 1..10 : DigitChars[d] = ch

RECURSIVE ParseNat(_)
ParseNat(s) ==
    IF s = <<>> THEN 0
    ELSE 10 * ParseNat(SubSeq(s, 1, Len(s) - 1)) + DigitValue(s[Len(s)])

IsNatText(s) == s # <<>> /\ \A i \in 1..Len(s) : IsDigit(s[i])

\* pd.to_numeric(errors='coerce') on one cell: a number stays, a string of
\* digits (with an optional sign) is parsed, anything else becomes NaN
ToNumeric(c) ==
    CASE c.k = "num" -> c
      [] c.k = "nan" -> NaN
      [] OTHER ->
           IF IsNatText(c.s) THEN Num(ParseNat(c.s))
           ELSE IF c.s # <<>> /\ Head(c.s) = "-" /\ IsNatText(Tail(c.s))
                THEN Num(-ParseNat(Tail(c.s)))
                ELSE NaN

NotNa(c) == c.k # "nan"

(***************************************************************************)
(* DataFrames.                                                              *)
(***************************************************************************)
None == [some |-> FALSE, columns |-> <<>>, index |-> <<>>, data |-> <<>>]

\* a frame holds its index and its rows as sequences that are built once
Frame(cols, idx, rows) ==
    [some |-> TRUE, columns |-> cols, index |-> idx \o <<>>, data |-> rows \o <<>>]

\* len(frame)
FrameLen(f) == Len(f.data)

Range(s) == {s[i] : i \in 1..Len(s)}

\* name in frame.columns
HasColumn(f, name) == name \in Range(f.columns)

ColPos(f, name) == CHOOSE j \in 1..Len(f.columns) : f.columns[j] = name

\* frame[name]: the column as a sequence of cells
Column(f, name) == [i \in 1..FrameLen(f) |-> f.data[i][ColPos(f, name)]] \o <<>>

\* frame.iloc[start:stop] (0-based, stop exclusive, clipped to the frame)
ILoc(f, start, stop) ==
    LET lo == IF start > FrameLen(f) THEN FrameLen(f) ELSE start
        hi == IF stop > FrameLen(f) THEN FrameLen(f) ELSE stop
    IN  Frame(f.columns, SubSeq(f.index, lo + 1, hi), SubSeq(f.data, lo + 1, hi))

\* the positions 1..n whose flag is set, in order
SelectPositions(flags, n) == SelectSeq([i \in 1..n |-> i], LAMBDA i : flags[i])

\* the rows at the given positions, in that order
TakeRows(f, pos) ==
    Frame(f.columns, [i \in 1..Len(pos) |-> f.index[pos[i]]],
          [i \in 1..Len(pos) |-> f.data[pos[i]]])

\* Ceil with the division rounded down
CeilRoundedDown(a, b) == a \div b

\* math.ceil(a / b) for a >= 0, b > 0
Ceil(a, b) == (a + b - 1) \div b

Max(a, b) == IF a >= b THEN a ELSE b

Min(a, b) == IF a <= b THEN a ELSE b


(***************************************************************************)
(* Table view index: rendering and paging.                                  *)
(***************************************************************************)
\* str(val), cut to 47 characters and "..." when longer than 50
RenderCell(c) ==
    LET str_val == StrForm(c)
    IN  IF Len(str_val) > TruncateAt
        THEN SubSeq(str_val, 1, TruncateKeep) \o <<".", ".", ".">>
        ELSE str_val

\* the values inserted in the treeview for the rows of a page
RenderRows(f) ==
    [i \in 1..FrameLen(f) |-> [j \in 1..Len(f.data[i]) |-> RenderCell(f.data[i][j])]]

\* start_idx = page * rows; end_idx = min(start_idx + rows, len(frame));
\* page_data = frame.iloc[start_idx:end_idx]
PageData(f, page, rows) ==
    ILoc(f, page * rows, Min(page * rows + rows, FrameLen(f)))

\* max(1, math.ceil(len(frame) / rows))
TotalPages(f, rows) == Max(1, Ceil(FrameLen(f), rows))

\* update_data_view: the treeview shows the current page of self.df, or
\* nothing when there is no table
UpdateDataView(d, page, rows) ==
    IF d.some THEN RenderRows(PageData(d, page, rows)) ELSE <<>>

\* display_filtered_data: the treeview is cleared and, when a filter
\* exists, shows the current page of self.filtered_df
DisplayFilteredData(fd, page, rows) ==
    IF fd.some THEN RenderRows(PageData(fd, page, rows)) ELSE <<>>

\* the redisplay shared by prev_page and next_page
PageView(d, fd, page, rows) ==
    IF fd.some THEN DisplayFilteredData(fd, page, rows)
    ELSE UpdateDataView(d, page, rows)

Done(op, arg, res, stages) == [op |-> op, arg |-> arg, res |-> res, stages |-> stages]

prev_page ==
    /\ last' = Done("prev_page", <<>>, IF current_page > 0 THEN "moved" ELSE "stayed", <<>>)
    /\ IF current_page > 0
       THEN /\ current_page' = current_page - 1
            /\ tree' = PageView(df, filtered_df, current_page - 1, rows_per_page)
       ELSE UNCHANGED <<current_page, tree>>
    /\ UNCHANGED <<df, sampled_df, filtered_df, rows_per_page, total_pages,
                   search_var>>
    /\ msg' = "none"
    /\ UNCHANGED chartVars

\* next_page without the last-page guard
next_page_unguarded ==
    /\ last' = Done("next_page", <<>>, IF current_page < total_pages - 1 THEN "moved" ELSE "stayed", <<>>)
    /\ current_page' = current_page + 1
    /\ tree' = PageView(df, filtered_df, current_page + 1, rows_per_page)
    /\ UNCHANGED <<df, sampled_df, filtered_df, rows_per_page, total_pages,
                   search_var>>
    /\ msg' = "none"
    /\ UNCHANGED chartVars

next_page ==
    /\ last' = Done("next_page", <<>>, IF current_page < total_pages - 1 THEN "moved" ELSE "stayed", <<>>)
    /\ IF current_page < total_pages - 1
       THEN /\ current_page' = current_page + 1
            /\ tree' = PageView(df, filtered_df, current_page + 1, rows_per_page)
       ELSE UNCHANGED <<current_page, tree>>
    /\ UNCHANGED <<df, sampled_df, filtered_df, rows_per_page, total_pages,
                   search_var>>
    /\ msg' = "none"
    /\ UNCHANGED chartVars

\* RowMatches comparing the cells without lowering them
RowMatchesCaseSensitive(row, search_term) ==
    \E j \in 1..Len(row) : Contains(StrForm(row[j]), search_term)

\* any(search_term in cell.lower() for cell in row.values) on str_df
RowMatches(row, search_term) ==
    \E j \in 1..Len(row) : Contains(Lower(StrForm(row[j])), search_term)

\* the positions of the rows appended to `results`
SearchResults(d, search_term) ==
    SelectPositions([i \in 1..FrameLen(d) |-> RowMatches(d.data[i], search_term)],
                    FrameLen(d))

\* search_data installing the empty result as the filter
search_data_empty_filter(text) ==
    LET search_term == Lower(Strip(text))
        results == SearchResults(df, search_term)
        found == TakeRows(df, results)
    IN  /\ last' = Done("search_data", text,
                       IF ~df.some THEN "no_data"
                       ELSE IF search_term = <<>> THEN "shown_all"
                       ELSE IF results = <<>> THEN "no_match"
                       ELSE "installed", <<>>)
        /\ search_var' = text
        /\ IF ~df.some
           THEN /\ msg' = "no_data_to_search"
                /\ UNCHANGED <<filtered_df, current_page, total_pages, tree>>
           ELSE IF search_term = <<>>
           THEN /\ current_page' = 0
                /\ tree' = UpdateDataView(df, 0, rows_per_page)
                /\ UNCHANGED <<filtered_df, total_pages>>
                /\ msg' = "none"
           ELSE /\ filtered_df' = found
                /\ current_page' = 0
                /\ total_pages' = TotalPages(found, rows_per_page)
                /\ tree' = DisplayFilteredData(found, 0, rows_per_page)
                /\ msg' = IF results = <<>> THEN "no_match" ELSE "none"
        /\ UNCHANGED <<df, sampled_df, rows_per_page>>
        /\ UNCHANGED chartVars

\* search_data, the search box holding `text`
search_data(text) ==
    LET search_term == Lower(Strip(text))
        results == SearchResults(df, search_term)
        found == TakeRows(df, results)
    IN  /\ last' = Done("search_data", text,
                       IF ~df.some THEN "no_data"
                       ELSE IF search_term = <<>> THEN "shown_all"
                       ELSE IF results = <<>> THEN "no_match"
                       ELSE "installed", <<>>)
        /\ search_var' = text
        /\ IF ~df.some
           THEN /\ msg' = "no_data_to_search"
                /\ UNCHANGED <<filtered_df, current_page, total_pages, tree>>
           ELSE IF search_term = <<>>
           THEN /\ current_page' = 0
                /\ tree' = UpdateDataView(df, 0, rows_per_page)
                /\ UNCHANGED <<filtered_df, total_pages>>
                /\ msg' = "none"
           ELSE IF results = <<>>
           THEN /\ msg' = "no_match"
                /\ UNCHANGED <<filtered_df, current_page, total_pages, tree>>
           ELSE /\ filtered_df' = found
                /\ current_page' = 0
                /\ total_pages' = TotalPages(found, rows_per_page)
                /\ tree' = DisplayFilteredData(found, 0, rows_per_page)
                /\ msg' = "none"
        /\ UNCHANGED <<df, sampled_df, rows_per_page>>
        /\ UNCHANGED chartVars

clear_search ==
    /\ last' = Done("clear_search", <<>>, "cleared", <<>>)
    /\ search_var' = <<>>
    /\ filtered_df' = None
    /\ current_page' = 0
    /\ tree' = UpdateDataView(df, 0, rows_per_page)
    /\ UNCHANGED <<df, sampled_df, rows_per_page, total_pages>>
    /\ msg' = "none"
    /\ UNCHANGED chartVars

\* change_rows_per_page, the dialog answered with new_rows (0: cancelled)
change_rows_per_page(new_rows) ==
    /\ last' = Done("change_rows_per_page", new_rows, IF new_rows = 0 THEN "cancelled" ELSE "changed", <<>>)
    /\ IF new_rows = 0
       THEN UNCHANGED <<rows_per_page, total_pages, current_page, tree>>
       ELSE /\ rows_per_page' = new_rows
            /\ IF df.some
               THEN /\ total_pages' = TotalPages(df, new_rows)
                    /\ current_page' = Min(current_page, TotalPages(df, new_rows) - 1)
                    /\ tree' = UpdateDataView(df, Min(current_page, TotalPages(df, new_rows) - 1),
                                              new_rows)
               ELSE UNCHANGED <<total_pages, current_page, tree>>
    /\ UNCHANGED <<df, sampled_df, filtered_df, search_var>>
    /\ msg' = "none"
    /\ UNCHANGED chartVars

(***************************************************************************)
(* Loading a table.                                                         *)
(***************************************************************************)
RECURSIVE Gcd(_, _)
Gcd(a, b) == IF b = 0 THEN a ELSE Gcd(b, a % b)

\* frame.sample(n, random_state=42): n rows without replacement, in an order
\* the fixed seed determines; the same frame length gives the same positions
SamplePositions(len, n) ==
    LET stride == CHOOSE s \in 7..(len + 7) :
                      /\ Gcd(s, len) = 1
                      /\ \A t \in 7..(s - 1) : Gcd(t, len) # 1
    IN  [i \in 1..n |-> ((SampleSeed + (i - 1) * stride) % len) + 1]

Sample(f, n) == TakeRows(f, SamplePositions(FrameLen(f), n))

\* pd.to_numeric(frame[col], errors='coerce').notna().any()
IsNumericColumn(f, col) ==
    \E i \in 1..FrameLen(f) : NotNa(ToNumeric(f.data[i][ColPos(f, col)]))

\* the columns collected in numeric_columns, in table order
NumericColumns(f) ==
    LET pos == SelectPositions([j \in 1..Len(f.columns) |-> IsNumericColumn(f, f.columns[j])],
                               Len(f.columns))
    IN  [i \in 1..Len(pos) |-> f.columns[pos[i]]]

\* update_column_selectors: the X selection
SelectorX(f) == IF f.columns # <<>> THEN f.columns[1] ELSE ""

\* update_column_selectors: the Y selection
SelectorY(f) ==
    IF NumericColumns(f) # <<>> THEN NumericColumns(f)[1]
    ELSE IF Len(f.columns) > 1 THEN f.columns[2]
    ELSE IF f.columns # <<>> THEN f.columns[1]
    ELSE ""

\* load_csv: `file` is the table read from the chosen file, or None when the
\* dialog is cancelled or the file does not exist
load_csv(file) ==
    /\ last' = Done("load_csv", <<>>, IF file.some THEN "loaded" ELSE "cancelled", <<>>)
    /\ IF ~file.some
       THEN /\ UNCHANGED <<df, sampled_df, current_page, rows_per_page, total_pages,
                             tree, x_column, y_column>>
            /\ msg' = "none"
       ELSE /\ df' = file
            /\ current_page' = 0
            /\ rows_per_page' = DefaultRowsPerPage
            /\ total_pages' = TotalPages(file, DefaultRowsPerPage)
            /\ sampled_df' = IF FrameLen(file) > SampleCap THEN Sample(file, SampleCap)
                             ELSE None
            /\ tree' = UpdateDataView(file, 0, DefaultRowsPerPage)
            /\ x_column' = SelectorX(file)
            /\ y_column' = SelectorY(file)
            /\ msg' = "loaded_file"
    /\ UNCHANGED <<filtered_df, search_var, chart_type, plot_frame>>

\* load_from_db.load_selected_table: `table` is the table read from the
\* database, or None when the file dialog is cancelled
load_from_db(table) ==
    /\ last' = Done("load_from_db", <<>>, IF table.some THEN "loaded" ELSE "cancelled", <<>>)
    /\ IF ~table.some
       THEN /\ UNCHANGED <<df, tree, x_column, y_column>>
            /\ msg' = "none"
       ELSE /\ df' = table
            /\ tree' = UpdateDataView(table, current_page, rows_per_page)
            /\ x_column' = SelectorX(table)
            /\ y_column' = SelectorY(table)
            /\ msg' = "loaded_table"
    /\ UNCHANGED <<sampled_df, filtered_df, current_page, rows_per_page, total_pages,
                   search_var, chart_type, plot_frame>>

(***************************************************************************)
(* The tables and inputs of the view specification.                         *)
(***************************************************************************)
RangeIndex(n) == [i \in 1..n |-> i - 1]

ViewTag(i) ==
    CASE i % 3 = 1 -> <<"a">>
      [] i % 3 = 2 -> <<"A", "b">>
      [] OTHER -> <<"b">>

ViewColumns == <<"id", "tag">>

\* ViewRows rows: a running number and a tag cycling through a, Ab, b
ViewTableA ==
    Frame(ViewColumns, RangeIndex(ViewRows),
          [i \in 1..ViewRows |-> <<Num(i), Str(ViewTag(i))>>])

\* SmallRows rows: numbers from 101 and the tag c
ViewTableB ==
    Frame(ViewColumns, RangeIndex(SmallRows),
          [i \in 1..SmallRows |-> <<Num(100 + i), Str(<<"c">>)>>])

\* a file holding only the header line
ViewTableEmpty == Frame(ViewColumns, <<>>, <<>>)

ViewTables == {ViewTableA, ViewTableB, ViewTableEmpty}

SearchTexts == {<<>>, <<"a">>, <<" ", "A">>, <<"1">>, <<"z">>}

\* answers to the rows-per-page dialog; 0 stands for a cancelled dialog
PageSizes == {0, MinRowsPerPage, MinRowsPerPage + SizeStep}

\* self.plot_frame without a chart
\* the chart shown in the plot frame: its kind, the columns and rows drawn,
\* the log-scale flag, the note of the title with the number of removed
\* rows, and for a histogram the bin count and the shift applied
Chart(kind, columns, rows, log, note, removed, bins, shift) ==
    [kind |-> kind, columns |-> columns, rows |-> rows, log |-> log, note |-> note,
     removed |-> removed, bins |-> bins, shift |-> shift]

NoPlot == Chart("none", <<>>, <<>>, FALSE, "none", 0, 0, Num(0))

Init ==
    /\ df = None
    /\ sampled_df = None
    /\ filtered_df = None
    /\ current_page = 0
    /\ rows_per_page = DefaultRowsPerPage
    /\ total_pages = 1
    /\ search_var = <<>>
    /\ tree = <<>>
    /\ x_column = ""
    /\ y_column = ""
    /\ chart_type = "zhexiantu"
    /\ plot_frame = NoPlot
    /\ msg = "none"
    /\ last = Done("init", <<>>, "none", <<>>)

NextView ==
    \/ \E t \in ViewTables \cup {None} : load_csv(t)
    \/ \E t \in ViewTables \cup {None} : load_from_db(t)
    \/ \E text \in SearchTexts : search_data(text)
    \/ clear_search
    \/ prev_page
    \/ next_page
    \/ \E n \in PageSizes : change_rows_per_page(n)

\* the table view index: loading, searching and paging
SpecView == Init /\ [][NextView]_vars

(***************************************************************************)
(* Properties of the table view index.                                      *)
(***************************************************************************)
\* the rows paging is meant to run over: the filter when one is active
PagedFrame == IF filtered_df.some THEN filtered_df ELSE df

Paging == last.op \in {"prev_page", "next_page"}

RECURSIVE PagesIndex(_, _, _)
\* the row labels of pages 0..n-1, one page after the other
PagesIndex(f, n, rows) ==
    IF n = 0 THEN <<>>
    ELSE PagesIndex(f, n - 1, rows) \o PageData(f, n - 1, rows).index

\* the rows of `d` with a cell whose lowered string form contains `term`
MatchingPositions(d, term) ==
    {i \in 1..FrameLen(d) :
        \E j \in 1..Len(d.data[i]) :
            LET cell == Lower(StrForm(d.data[i][j]))
            IN  \E o \in 1..Len(cell) :
                    /\ o + Len(term) - 1 <= Len(cell)
                    /\ \A q \in 1..Len(term) : cell[o + q - 1] = term[q]}

\* `fd` holds exactly the rows of `d` at the positions `pos`, in table order
IsSelection(fd, d, pos) ==
    /\ fd.some
    /\ fd.columns = d.columns
    /\ FrameLen(fd) = Cardinality(pos)
    /\ Len(fd.index) = FrameLen(fd)
    /\ {fd.index[k] + 1 : k \in 1..FrameLen(fd)} = pos
    /\ \A k \in 1..(FrameLen(fd) - 1) : fd.index[k] < fd.index[k + 1]
    /\ \A k \in 1..FrameLen(fd) : fd.data[k] = d.data[fd.index[k] + 1]

\* C3 (as claimed): while a filter is active, after next_page, prev_page or
\* change_rows_per_page total_pages is max(1, ceil(|filtered| / page_size)),
\* the page index addresses a non-empty slice of the filtered rows and the
\* rows on display are that slice.
C3_FilteredPaging ==
    (/\ filtered_df.some
     /\ \/ Paging /\ last.res = "moved"
        \/ last.op = "change_rows_per_page" /\ last.res = "changed")
    => /\ total_pages = Max(1, Ceil(FrameLen(filtered_df), rows_per_page))
       /\ current_page * rows_per_page < FrameLen(filtered_df)
       /\ tree = RenderRows(PageData(filtered_df, current_page, rows_per_page))

\* C4 (as claimed): after clear_search, or search_data with an empty term,
\* no filter is active, the page index is 0 and total_pages is
\* max(1, ceil(N / page_size)) for the N rows of the table; paging without
\* a filter shows rows of the table.
C4_ClearRestores ==
    /\ (/\ df.some
        /\ \/ last.op = "clear_search"
           \/ last.op = "search_data" /\ last.arg = <<>>)
       => /\ ~filtered_df.some
          /\ current_page = 0
          /\ total_pages = Max(1, Ceil(FrameLen(df), rows_per_page))
    /\ (df.some /\ Paging /\ ~filtered_df.some)
       => tree = RenderRows(PageData(df, current_page, rows_per_page))

\* C5 (as claimed): after load_csv or load_from_db replaces the table the
\* page index is 0, total_pages is computed from the new table and no
\* filter is active; a later paging step displays rows of the active table.
C5_LoadResetsView ==
    /\ (last.op \in {"load_csv", "load_from_db"} /\ last.res = "loaded")
       => /\ current_page = 0
          /\ total_pages = Max(1, Ceil(FrameLen(df), rows_per_page))
          /\ ~filtered_df.some
    /\ (df.some /\ Paging /\ last.res = "moved")
       => Range(tree) \subseteq Range(RenderRows(df))

\* the handler that ran last computed total_pages, and over which rows
ComputedOver ==
    CASE last.op = "load_csv" /\ last.res = "loaded" -> df
      [] last.op = "search_data" /\ last.res = "installed" -> filtered_df
      [] OTHER -> None

\* pages 0..total_pages-1 of `f` hold every row once, in order, and the
\* treeview shows the current page
PagesPartition(f) ==
    /\ PagesIndex(f, total_pages, rows_per_page) = f.index
    /\ \A i \in 0..(total_pages - 1) :
          PageData(f, i, rows_per_page).data =
              SubSeq(f.data, i * rows_per_page + 1,
                     Min((i + 1) * rows_per_page, FrameLen(f)))
    /\ tree = RenderRows(PageData(f, current_page, rows_per_page))

C7_ChangeRows ==
    [][last'.op = "change_rows_per_page"
       => IF last'.res = "cancelled"
          THEN UNCHANGED <<df, sampled_df, filtered_df, current_page, rows_per_page,
                           total_pages, search_var, tree, chartVars>>
          ELSE df.some
               => /\ total_pages' = Max(1, Ceil(FrameLen(PagedFrame'), rows_per_page'))
                  /\ current_page' = Min(current_page, total_pages' - 1)
                  /\ current_page' >= 0]_vars

\* 0 <= current_page <= total_pages - 1 and total_pages >= 1
PageInRange ==
    /\ 0 <= current_page
    /\ current_page <= total_pages - 1
    /\ total_pages >= 1

\* C8: the page index stays within [0, total_pages - 1] with total_pages >= 1;
\* prev_page on page 0 and next_page on the last page leave it unchanged,
\* and otherwise each moves it by exactly one.
C8_PageClamped ==
    /\ PageInRange
    /\ [][/\ PageInRange'
          /\ last'.op = "prev_page"
             => current_page' = IF current_page = 0 THEN 0 ELSE current_page - 1
          /\ last'.op = "next_page"
             => current_page' = IF current_page = total_pages - 1 THEN current_page
                                ELSE current_page + 1]_vars

\* C8 witness: next_page has been asked for on the last of several pages
C8_Witness ==
    /\ last.op = "next_page"
    /\ last.res = "stayed"
    /\ total_pages > 1
    /\ current_page = total_pages - 1

\* C9 (as claimed): search_data with a non-empty term installs exactly the
\* rows with a cell containing the term, ignoring case, and resets the page
\* index to 0.
C9_Original ==
    (last.op = "search_data" /\ df.some /\ last.arg # <<>>)
    => /\ IsSelection(filtered_df, df, MatchingPositions(df, Lower(last.arg)))
       /\ current_page = 0

\* C9 (amended): search_data with a term that is non-empty once its leading
\* and trailing whitespace is removed, and that matches at least one row,
\* installs as filter exactly the rows, in table order, with a cell whose
\* string form contains the stripped term ignoring case, and resets the
\* page index to 0; when no row matches no filter is installed.
C9_SearchInstalls ==
    (last.op = "search_data" /\ df.some /\ Strip(last.arg) # <<>>)
    => IF MatchingPositions(df, Lower(Strip(last.arg))) # {}
       THEN /\ last.res = "installed"
            /\ IsSelection(filtered_df, df, MatchingPositions(df, Lower(Strip(last.arg))))
            /\ current_page = 0
       ELSE last.res = "no_match"

\* C9 witness: a search typed in upper case with a leading blank installed
\* a filter that leaves some rows out
C9_Witness ==
    /\ last.op = "search_data"
    /\ last.res = "installed"
    /\ last.arg = <<" ", "A">>
    /\ FrameLen(filtered_df) < FrameLen(df)
    /\ FrameLen(filtered_df) > 0

(***************************************************************************)
(* Chart-kind recommendation.                                               *)
(***************************************************************************)
PieMaxCategories == 7
ManyCategories == 50

\* Series.nunique(): the number of distinct non-missing values
NUnique(col) == Cardinality({col[i] : i \in {j \in 1..Len(col) : NotNa(col[j])}})

\* pd.to_numeric(column, errors='coerce').notna().any()
AnyNumeric(col) == \E i \in 1..Len(col) : NotNa(ToNumeric(col[i]))

\* Recommend with the pie test written x_nunique < 7
RecommendStrictPie(d, x_col, y_col) ==
    LET x_nunique == NUnique(Column(d, x_col))
        y_is_numeric == HasColumn(d, y_col) /\ AnyNumeric(Column(d, y_col))
    IN  IF ~y_is_numeric THEN [kind |-> "bar", msg |-> "recommend_bar_count"]
        ELSE IF x_nunique < PieMaxCategories THEN [kind |-> "pie", msg |-> "recommend_pie"]
        ELSE IF x_nunique > ManyCategories
        THEN IF AnyNumeric(Column(d, x_col))
             THEN [kind |-> "scatter", msg |-> "recommend_scatter"]
             ELSE [kind |-> "histogram", msg |-> "recommend_histogram"]
        ELSE [kind |-> "bar", msg |-> "recommend_bar"]

\* the branches of suggest_visualization: the value given to
\* self.chart_type.set and the message shown
Recommend(d, x_col, y_col) ==
    LET x_nunique == NUnique(Column(d, x_col))
        y_is_numeric == HasColumn(d, y_col) /\ AnyNumeric(Column(d, y_col))
    IN  IF ~y_is_numeric THEN [kind |-> "bar", msg |-> "recommend_bar_count"]
        ELSE IF x_nunique <= PieMaxCategories THEN [kind |-> "pie", msg |-> "recommend_pie"]
        ELSE IF x_nunique > ManyCategories
        THEN IF AnyNumeric(Column(d, x_col))
             THEN [kind |-> "scatter", msg |-> "recommend_scatter"]
             ELSE [kind |-> "histogram", msg |-> "recommend_histogram"]
        ELSE [kind |-> "bar", msg |-> "recommend_bar"]

\* the checks before any work: "ok", or the warning shown.  create_plot
\* also checks that both names are columns of the table.
Validate(d, x_col, y_col, check_columns) ==
    IF ~d.some THEN "no_data_to_plot"
    ELSE IF x_col = "" \/ y_col = "" THEN "select_columns"
    ELSE IF check_columns /\ ~HasColumn(d, x_col) THEN "x_not_in_table"
    ELSE IF check_columns /\ ~HasColumn(d, y_col) THEN "y_not_in_table"
    ELSE "ok"

suggest_visualization ==
    LET valid == Validate(df, x_column, y_column, FALSE)
        known == HasColumn(df, x_column)
        rec == Recommend(df, x_column, y_column)
    IN  /\ IF valid # "ok"
           THEN /\ msg' = valid
                /\ last' = Done("suggest_visualization", <<>>, "invalid", <<>>)
                /\ UNCHANGED chart_type
           ELSE IF ~known
           THEN \* self.df[x_col] raises KeyError, which nothing catches (the
                \* lookup of y is inside a try block and counts as non-numeric)
                /\ last' = Done("suggest_visualization", <<>>, "exception", <<>>)
                /\ msg' = "none"
                /\ UNCHANGED chart_type
           ELSE /\ chart_type' = rec.kind
                /\ msg' = rec.msg
                /\ last' = Done("suggest_visualization", <<>>, "recommended", <<>>)
        /\ UNCHANGED <<df, sampled_df, x_column, y_column, plot_frame>>
        /\ UNCHANGED viewVars

\* the entries update_column_selectors gives the X combobox
XValues(d) == IF d.some THEN d.columns ELSE <<>>

\* the entries update_column_selectors gives the Y combobox: the numeric
\* columns, or every column when none is numeric
YValues(d) ==
    IF ~d.some THEN <<>>
    ELSE IF NumericColumns(d) # <<>> THEN NumericColumns(d)
    ELSE d.columns

\* on_x_selected: the user picks `selected` in the readonly X combobox
on_x_selected(selected) ==
    /\ selected \in Range(XValues(df))
    /\ last' = Done("on_x_selected", selected, "done", <<>>)
    /\ x_column' = IF selected # "" THEN selected ELSE x_column
    /\ UNCHANGED <<df, sampled_df, y_column, chart_type, plot_frame>>
    /\ msg' = "none"
    /\ UNCHANGED viewVars

\* on_y_selected: the user picks `selected` in the readonly Y combobox
on_y_selected(selected) ==
    /\ selected \in Range(YValues(df))
    /\ last' = Done("on_y_selected", selected, "done", <<>>)
    /\ y_column' = IF selected # "" THEN selected ELSE y_column
    /\ UNCHANGED <<df, sampled_df, x_column, chart_type, plot_frame>>
    /\ msg' = "none"
    /\ UNCHANGED viewVars

\* CHART_TYPE_MAP: display name -> internal name
CHART_TYPE_MAP ==
    [zhexiantu |-> "line", zhuzhuangtu |-> "bar", sandiantu |-> "scatter",
     bingtu |-> "pie", relitu |-> "heatmap", zhifangtu |-> "histogram"]

\* the chart combobox, bound to self.chart_type, is set to a display name
chart_combobox_select(display) ==
    /\ last' = Done("chart_combobox_select", display, "done", <<>>)
    /\ chart_type' = display
    /\ UNCHANGED <<df, sampled_df, x_column, y_column, plot_frame>>
    /\ msg' = "none"
    /\ UNCHANGED viewVars

(***************************************************************************)
(* Chart preparation: create_plot up to the cleaned working copy.           *)
(***************************************************************************)
TopCategories == 30
MinKeptRows == 10
PlotRowCap == 1000

\* the internal chart type: an empty selection defaults to the line chart's
\* display name, a name CHART_TYPE_MAP does not know resolves to "line"
ResolveChartType(display) ==
    LET chart_display_type == IF display = "" THEN "zhexiantu" ELSE display
    IN  IF chart_display_type \in DOMAIN CHART_TYPE_MAP
        THEN CHART_TYPE_MAP[chart_display_type]
        ELSE "line"

\* the number n/d in lowest terms
Rat(n, d) ==
    LET g == Gcd(IF n < 0 THEN -n ELSE n, d)
    IN  [k |-> "num", n |-> n \div g, d |-> d \div g, s |-> <<>>]

\* a < b on numbers
NumLess(a, b) == a.n * b.d < b.n * a.d

NumLeq(a, b) == a.n * b.d <= b.n * a.d

\* the frame with column `name` replaced by the cells `col`
MapColumn(f, name, col) ==
    LET j == ColPos(f, name)
    IN  Frame(f.columns, f.index,
              [i \in 1..FrameLen(f) |-> [f.data[i] EXCEPT ![j] = col[i]]])

\* the rows of the frame selected by the boolean mask `keep`
FilterRows(f, keep) == TakeRows(f, SelectPositions(keep, FrameLen(f)))

\* plot_df[y] = pd.to_numeric(plot_df[y], errors='coerce');
\* plot_df = plot_df.dropna(subset=[y])
CoerceAndDrop(f, y_col) ==
    LET col == Column(f, y_col)
        numeric == [i \in 1..Len(col) |-> ToNumeric(col[i])]
    IN  FilterRows(MapColumn(f, y_col, numeric),
                   [i \in 1..Len(col) |-> NotNa(numeric[i])])

\* the distinct non-missing values of a column, by first appearance
UniqueInOrder(col) ==
    LET first == [i \in 1..Len(col) |->
                     NotNa(col[i]) /\ \A j \in 1..(i - 1) : col[j] # col[i]]
        pos == SelectPositions(first, Len(col))
    IN  [i \in 1..Len(pos) |-> col[pos[i]]]

CountOf(col, v) == Cardinality({i \in 1..Len(col) : col[i] = v})

\* Series.value_counts(): each distinct non-missing value with its number
\* of rows, most frequent first (equal counts by first appearance)
ValueCounts(col) ==
    LET uniq == UniqueInOrder(col)
        entries == [p \in 1..Len(uniq) |-> [v |-> uniq[p], n |-> CountOf(col, uniq[p]), p |-> p]]
    IN  SortSeq(entries, LAMBDA a, b : a.n > b.n \/ (a.n = b.n /\ a.p < b.p))

\* value_counts.reset_index() with the columns named [x_col, 'Count']
CountFrame(x_col, value_counts) ==
    Frame(<<x_col, "Count">>, RangeIndex(Len(value_counts)),
          [i \in 1..Len(value_counts) |-> <<value_counts[i].v, Num(value_counts[i].n)>>])

\* the numbers of a column of integers, ascending
SortedInts(col) == SortSeq([i \in 1..Len(col) |-> col[i].n], LAMBDA a, b : a < b)

\* den * Series.quantile(num / den) of ascending integers: linear
\* interpolation between the two neighbours of position (n - 1) * num / den
QuantileTimes(sorted, num, den) ==
    LET h == (Len(sorted) - 1) * num
        lo == h \div den
        fr == h % den
    IN  IF fr = 0 THEN den * sorted[lo + 1]
        ELSE den * sorted[lo + 1] + fr * (sorted[lo + 2] - sorted[lo + 1])

\* Q1, Q3 and IQR of the coerced column, each times 4
Quartiles(col) ==
    LET sorted == SortedInts(col)
        q1 == QuantileTimes(sorted, 1, 4)
        q3 == QuantileTimes(sorted, 3, 4)
    IN  [q1 |-> q1, q3 |-> q3, iqr |-> q3 - q1, max |-> sorted[Len(sorted)]]

\* has_extreme_outliers = max > Q3 + 5 * IQR
HasExtremeOutliers(col) ==
    LET q == Quartiles(col) IN 4 * q.max > q.q3 + 5 * q.iqr

\* the rows with Q1 - 1.5 * IQR <= y <= Q3 + 1.5 * IQR
TukeyFilter(f, y_col) ==
    LET col == Column(f, y_col)
        q == Quartiles(col)
    IN  FilterRows(f, [i \in 1..Len(col) |->
                          /\ 8 * col[i].n >= 2 * q.q1 - 3 * q.iqr
                          /\ 8 * col[i].n <= 2 * q.q3 + 3 * q.iqr])

\* the rows of the coerced working table between its 1st and 99th percentile
PercentileFilter(work_df, y_col) ==
    LET again == CoerceAndDrop(work_df, y_col)
        col == Column(again, y_col)
        sorted == SortedInts(col)
        lower_bound == QuantileTimes(sorted, 1, 100)
        upper_bound == QuantileTimes(sorted, 99, 100)
    IN  FilterRows(again, [i \in 1..Len(col) |->
                              /\ 100 * col[i].n >= lower_bound
                              /\ 100 * col[i].n <= upper_bound])

\* RemoveOutliers without the percentile fallback
RemoveOutliersTukeyOnly(f, work_df, y_col) == TukeyFilter(f, y_col)

\* the remove policy
RemoveOutliers(f, work_df, y_col) ==
    LET kept == TukeyFilter(f, y_col)
    IN  IF FrameLen(kept) < MinKeptRows THEN PercentileFilter(work_df, y_col) ELSE kept

\* the log-scale policy: values <= 0 become 0.1 * the least positive value,
\* when there is one
ReplaceNonPositive(f, y_col) ==
    LET col == Column(f, y_col)
        positive == {col[i].n : i \in {j \in 1..Len(col) : col[j].n > 0}}
        min_positive == CHOOSE m \in positive : \A o \in positive : m <= o
    IN  IF (\E i \in 1..Len(col) : col[i].n <= 0) /\ positive # {}
        THEN MapColumn(f, y_col,
                       [i \in 1..Len(col) |->
                           IF col[i].n <= 0 THEN Rat(min_positive, 10) ELSE col[i]])
        ELSE f

\* the answers the user gives to the dialogs of one create_plot request
Answers ==
    [count : BOOLEAN, top : BOOLEAN, outlier : {"remove", "log_scale", "keep"}]

\* the count question is asked when no y value converts
AskCount(work_df, y_col) == ~AnyNumeric(Column(work_df, y_col))

\* the top-30 question is asked on the count path with more than 30 values
AskTop(work_df, x_col, y_col, a) ==
    /\ AskCount(work_df, y_col)
    /\ a.count
    /\ NUnique(Column(work_df, x_col)) > TopCategories

\* the outlier policy is asked on the numeric path when the coerced values
\* have an extreme outlier and the column is not named 'Count'
AskOutlier(work_df, y_col) ==
    /\ ~AskCount(work_df, y_col)
    /\ HasExtremeOutliers(Column(CoerceAndDrop(work_df, y_col), y_col))
    /\ y_col # "Count"

\* the working copy after the count fallback or the numeric cleaning:
\*   ok          FALSE when the request ended here (count fallback refused)
\*   plot_df     the working copy
\*   y_col       the y column ('Count' on the fallback path)
\*   bound       whether use_log_scale and outlier_msg were assigned
\*   asked       the dialogs that were shown
Cleaned(work_df, x_col, y_col, chart, a) ==
    LET plot_df == work_df
        count_path == AskCount(work_df, y_col)
        ask_top == AskTop(work_df, x_col, y_col, a)
        value_counts == ValueCounts(Column(plot_df, x_col))
        shown == IF ask_top /\ a.top THEN SubSeq(value_counts, 1, TopCategories)
                 ELSE value_counts
        coerced == CoerceAndDrop(plot_df, y_col)
        has_extreme_outliers == HasExtremeOutliers(Column(coerced, y_col))
        ask == has_extreme_outliers /\ y_col # "Count"
        treated ==
            IF ~ask \/ a.outlier = "keep" THEN coerced
            ELSE IF a.outlier = "remove" THEN RemoveOutliers(coerced, work_df, y_col)
            ELSE ReplaceNonPositive(coerced, y_col)
        capped ==
            IF FrameLen(treated) > PlotRowCap /\ chart \in {"scatter", "line"}
            THEN Sample(treated, PlotRowCap)
            ELSE treated
    IN  IF count_path
        THEN [ok |-> a.count,
              plot_df |-> IF a.count THEN CountFrame(x_col, shown) ELSE plot_df,
              y_col |-> IF a.count THEN "Count" ELSE y_col,
              bound |-> FALSE, use_log_scale |-> FALSE, outlier_msg |-> "none",
              removed |-> 0, has_extreme_outliers |-> FALSE,
              asked |-> [count |-> TRUE, top |-> ask_top, outlier |-> FALSE],
              stages |-> <<"Validating">>]
        ELSE [ok |-> TRUE, plot_df |-> capped, y_col |-> y_col,
              bound |-> TRUE,
              use_log_scale |-> ask /\ a.outlier = "log_scale",
              outlier_msg |-> IF ~ask \/ a.outlier = "keep" THEN "none"
                              ELSE IF a.outlier = "remove" THEN "outliers_removed"
                              ELSE "log_scale_applied",
              removed |-> IF ask /\ a.outlier = "remove"
                          THEN FrameLen(coerced) - FrameLen(treated) ELSE 0,
              has_extreme_outliers |-> has_extreme_outliers,
              asked |-> [count |-> FALSE, top |-> FALSE, outlier |-> ask],
              stages |-> <<"Validating", "Cleaning">>]

(***************************************************************************)
(* Ordering and grouping, as pandas does them on one column.  Equal keys    *)
(* keep their earlier order.                                                *)
(***************************************************************************)
\* the characters of the tables, by code point
Alphabet ==
    <<" ", "-", "0", "1", "2", "3", "4", "5", "6", "7", "8", "9",
      "A", "B", "a", "b", "c", "g", "h", "m", "n", "r", "t", "x", "z">>

CharCodes == [c \in Range(Alphabet) |-> CHOOSE i \in 1..Len(Alphabet) : Alphabet[i] = c]

CharCode(c) == CharCodes[c]

RECURSIVE StrLess(_, _)
\* a < b on Python strings
StrLess(a, b) ==
    IF b = <<>> THEN FALSE
    ELSE IF a = <<>> THEN TRUE
    ELSE IF a[1] = b[1] THEN StrLess(Tail(a), Tail(b))
    ELSE CharCode(a[1]) < CharCode(b[1])

\* the order sort_values and groupby give the values of one column: numbers
\* by value, strings by code point, missing values last
CellLess(a, b) ==
    IF a.k = "nan" THEN FALSE
    ELSE IF b.k = "nan" THEN TRUE
    ELSE IF a.k = "num" /\ b.k = "num" THEN NumLess(a, b)
    ELSE IF a.k = "str" /\ b.k = "str" THEN StrLess(a.s, b.s)
    ELSE a.k = "num"

\* a column holding both numbers and strings cannot be sorted (TypeError)
Comparable(col) ==
    ~((\E i \in 1..Len(col) : col[i].k = "num") /\ (\E i \in 1..Len(col) : col[i].k = "str"))

\* DataFrame.sort_values, keys[i] being the sort key of row i
SortRowsBy(f, keys) ==
    LET entries == [i \in 1..FrameLen(f) |-> [p |-> i, key |-> keys[i]]]
        sorted == SortSeq(entries,
                          LAMBDA a, b : \/ CellLess(a.key, b.key)
                                        \/ (~CellLess(b.key, a.key) /\ a.p < b.p))
    IN  TakeRows(f, [i \in 1..FrameLen(f) |-> sorted[i].p])

\* the group keys of groupby: the distinct non-missing values, ascending
GroupKeys(col) == SortSeq(UniqueInOrder(col), CellLess)

RatAdd(a, b) == Rat(a.n * b.d + b.n * a.d, a.d * b.d)

RECURSIVE SumFirst(_, _)
\* the sum of the first n numbers of a sequence, added up by halves
SumFirst(cells, n) ==
    IF n = 0 THEN Num(0)
    ELSE IF n = 1 THEN cells[1]
    ELSE LET h == n \div 2
         IN  RatAdd(SumFirst(cells, h), SumFirst(SubSeq(cells, h + 1, n), n - h))

SumCells(cells) == SumFirst(cells, Len(cells))

\* the y values of the rows whose x is `key`
GroupValues(xs, ys, key) ==
    LET pos == SelectPositions([i \in 1..Len(xs) |-> xs[i] = key], Len(xs))
    IN  [i \in 1..Len(pos) |-> ys[pos[i]]]

\* the mean of a non-empty sequence of numbers
Mean(cells) ==
    LET total == SumCells(cells) IN Rat(total.n, total.d * Len(cells))

\* the rows drawn: the x and the y cell of every row of the working copy
Series(f, x_col, y_col) ==
    LET i_x == ColPos(f, x_col)
        i_y == ColPos(f, y_col)
    IN  [i \in 1..FrameLen(f) |-> <<f.data[i][i_x], f.data[i][i_y]>>]

\* how a create_plot request ends: the outcome, the message shown, the plot
\* frame afterwards, the stages passed and the value of self.chart_type
Outcome(res, message, plot, stages, display, asked) ==
    [res |-> res, msg |-> message, plot |-> plot, stages |-> stages,
     chart_type |-> display, asked |-> asked]

\* how the branch of one chart kind ends: "ready" with the chart drawn,
\* "failed" or "deferred" with the message shown
Branch(res, message, chart) == [res |-> res, msg |-> message, chart |-> chart]

\* the chart drawn from the working copy f of the cleaned data c
Drawn(c, kind, f, x_col, log, bins, shift) ==
    Chart(kind, <<x_col, c.y_col>>, Series(f, x_col, c.y_col), log,
          IF c.y_col = "Count" THEN "count" ELSE c.outlier_msg,
          IF c.y_col = "Count" THEN 0 ELSE c.removed, bins, shift)

(***************************************************************************)
(* The branches of create_plot, one per chart kind.  Each starts after the  *)
(* previous plot has been cleared.  The drawing calls of pandas and          *)
(* matplotlib are taken to succeed on the data they are given.               *)
(***************************************************************************)
BarTopGroups == 30

\* the rows of the 30 x groups with the highest mean of y
BarTop(f, x_col, y_col) ==
    LET xs == Column(f, x_col)
        ys == Column(f, y_col)
        keys == GroupKeys(xs)
        grouped == [g \in 1..Len(keys) |->
                       [p |-> g, v |-> keys[g], m |-> Mean(GroupValues(xs, ys, keys[g]))]]
        sorted == SortSeq(grouped,
                          LAMBDA a, b : NumLess(b.m, a.m) \/ (a.m = b.m /\ a.p < b.p))
        top_n == {sorted[i].v : i \in 1..Min(BarTopGroups, Len(sorted))}
    IN  FilterRows(f, [i \in 1..Len(xs) |-> xs[i] \in top_n])

\* chart_type == "bar": use_log_scale is read after the bars are drawn, and
\* has no value on the count path (UnboundLocalError, reported by the
\* handler of the whole request)
BarBranch(c, x_col) ==
    LET x_values_count == NUnique(Column(c.plot_df, x_col))
        f == IF x_values_count > BarTopGroups /\ c.y_col # "Count"
             THEN BarTop(c.plot_df, x_col, c.y_col)
             ELSE c.plot_df
    IN  IF ~c.bound THEN Branch("failed", "plot_error", NoPlot)
        ELSE Branch("ready", "none", Drawn(c, "bar", f, x_col, c.use_log_scale, 0, Num(0)))

IsoDateLen == 10

\* a string of the form dddd-dd-dd
IsIsoDate(s) ==
    /\ Len(s) = IsoDateLen
    /\ \A i \in 1..IsoDateLen : IF i \in {5, 8} THEN s[i] = "-" ELSE IsDigit(s[i])

\* pd.to_datetime accepts the value: a number, or a date string
IsDateValue(cell) == cell.k = "num" \/ (cell.k = "str" /\ IsIsoDate(cell.s))

LineHead == 5

\* the ordering of the line chart: [ok, f], ok FALSE when sorting raises
LineOrder(f, x_col) ==
    LET xs == Column(f, x_col)
        len == FrameLen(f)
        sample == SubSeq(xs, 1, Min(LineHead, len))
        parses == \A i \in 1..Len(sample) : sample[i].k = "nan" \/ IsDateValue(sample[i])
        date_count == Cardinality({i \in 1..len : IsDateValue(xs[i])})
        is_date == parses /\ 2 * date_count > len
        num_count == Cardinality({i \in 1..len : NotNa(ToNumeric(xs[i]))})
        dates == [i \in 1..len |-> IF IsDateValue(xs[i]) THEN xs[i] ELSE NaN]
        numbers == [i \in 1..len |-> ToNumeric(xs[i])]
        by_date == SortRowsBy(f, dates)
        by_number == SortRowsBy(f, numbers)
        sorted_dates == Column(by_date, x_col)
        sorted_numbers == Column(by_number, x_col)
    IN  IF is_date
        THEN [ok |-> TRUE,
              f |-> FilterRows(by_date, [i \in 1..len |-> IsDateValue(sorted_dates[i])])]
        ELSE IF 2 * num_count > len
        THEN [ok |-> TRUE,
              f |-> FilterRows(by_number,
                               [i \in 1..len |-> NotNa(ToNumeric(sorted_numbers[i]))])]
        ELSE IF Comparable(xs)
        THEN [ok |-> TRUE, f |-> SortRowsBy(f, xs)]
        ELSE [ok |-> FALSE, f |-> f]

MinLinePoints == 2

\* chart_type == "line"
LineBranch(c, x_col) ==
    IF FrameLen(c.plot_df) < MinLinePoints
    THEN Branch("failed", "not_enough_points", NoPlot)
    ELSE \* the ordering is computed once
         CHOOSE b \in
             {IF ~ordered.ok THEN Branch("failed", "line_error", NoPlot)
              ELSE IF FrameLen(ordered.f) < MinLinePoints
              THEN Branch("failed", "not_enough_points_after", NoPlot)
              ELSE IF ~c.bound THEN Branch("failed", "line_error", NoPlot)
              ELSE Branch("ready", "none",
                          Drawn(c, "line", ordered.f, x_col, c.use_log_scale, 0, Num(0))) :
                 ordered \in {LineOrder(c.plot_df, x_col)}} : TRUE

\* chart_type == "scatter"
ScatterBranch(c, x_col) ==
    IF ~c.bound THEN Branch("failed", "plot_error", NoPlot)
    ELSE Branch("ready", "none",
                Drawn(c, "scatter", c.plot_df, x_col, c.use_log_scale, 0, Num(0)))

\* |n/d|
Abs(cell) == [cell EXCEPT !.n = IF cell.n < 0 THEN -cell.n ELSE cell.n]

\* pie_data: the rows of the count table, or the sum of y per x group, with
\* negative values replaced by their absolute value
PieData(c, x_col) ==
    LET xs == Column(c.plot_df, x_col)
        ys == Column(c.plot_df, c.y_col)
        keys == GroupKeys(xs)
        raw == IF c.y_col = "Count"
               THEN [i \in 1..Len(xs) |-> [v |-> xs[i], y |-> ys[i]]]
               ELSE [g \in 1..Len(keys) |->
                        [v |-> keys[g], y |-> SumCells(GroupValues(xs, ys, keys[g]))]]
    IN  IF \E i \in 1..Len(raw) : raw[i].y.n < 0
        THEN [i \in 1..Len(raw) |-> [raw[i] EXCEPT !.y = Abs(raw[i].y)]]
        ELSE raw

PieCollapseAbove == 10
PieTop == 9

\* the label of the slice that collects the small groups
OtherLabel == Str(<<"q", "i", "t", "a">>)

\* PieCollapse without the slice of the remaining groups
PieCollapseTopOnly(pie_data) ==
    LET entries == [i \in 1..Len(pie_data) |-> [p |-> i, e |-> pie_data[i]]]
        sorted == SortSeq(entries,
                          LAMBDA a, b : \/ NumLess(b.e.y, a.e.y)
                                        \/ (a.e.y = b.e.y /\ a.p < b.p))
    IN  IF Len(pie_data) > PieCollapseAbove
        THEN [i \in 1..PieTop |-> sorted[i].e]
        ELSE pie_data

\* with more than 10 groups: top_n = pie_data.nlargest(9) (equal values in
\* their order of appearance) and, when the sum of the other groups is
\* > 0, the series top_n followed by that sum; pie_data as it is otherwise
PieCollapse(pie_data) ==
    LET entries == [i \in 1..Len(pie_data) |-> [p |-> i, e |-> pie_data[i]]]
        sorted == SortSeq(entries,
                          LAMBDA a, b : \/ NumLess(b.e.y, a.e.y)
                                        \/ (a.e.y = b.e.y /\ a.p < b.p))
        top_n == [i \in 1..PieTop |-> sorted[i].e]
        others_sum == SumCells([i \in 1..(Len(sorted) - PieTop) |-> sorted[PieTop + i].e.y])
    IN  IF Len(pie_data) > PieCollapseAbove /\ others_sum.n > 0
        THEN Append(top_n, [v |-> OtherLabel, y |-> others_sum])
        ELSE pie_data

\* the series handed to the pie drawing call
PieSlices(c, x_col) == PieCollapse(PieData(c, x_col))

\* chart_type == "pie": Series.plot(kind='pie') returns the axes, which
\* cannot be unpacked into (wedges, texts, autotexts)
PieBranch(c, x_col) ==
    LET pie_data == PieData(c, x_col)
        total == SumCells([i \in 1..Len(pie_data) |-> pie_data[i].y])
    IN  IF Len(pie_data) = 0 \/ total.n = 0
        THEN Branch("failed", "no_pie_data", NoPlot)
        ELSE Branch("failed", "pie_error", NoPlot)

MinHeatmapColumns == 3

\* the columns other than x and y, in table order
OtherColumns(f, x_col, y_col) ==
    LET flags == [i \in 1..Len(f.columns) |-> f.columns[i] \notin {x_col, y_col}]
        pos == SelectPositions(flags, Len(f.columns))
    IN  [i \in 1..Len(pos) |-> f.columns[pos[i]]]

\* create_heatmap_plot: the pivot table of the mean of y per (x, group),
\* 0 where a pair has no row; one row per x key, one entry per group key
PivotTable(f, x_col, y_col, group_col) ==
    LET i_x == ColPos(f, x_col)
        i_y == ColPos(f, y_col)
        i_g == ColPos(f, group_col)
        rows == {i \in 1..FrameLen(f) : NotNa(f.data[i][i_x]) /\ NotNa(f.data[i][i_g])}
        x_keys == GroupKeys([i \in 1..FrameLen(f) |->
                                IF i \in rows THEN f.data[i][i_x] ELSE NaN] \o <<>>)
        g_keys == GroupKeys([i \in 1..FrameLen(f) |->
                                IF i \in rows THEN f.data[i][i_g] ELSE NaN] \o <<>>)
        cell(xk, gk) ==
            LET hit == {i \in rows : f.data[i][i_x] = xk /\ f.data[i][i_g] = gk}
                pos == SelectPositions([i \in 1..FrameLen(f) |-> i \in hit], FrameLen(f))
            IN  IF hit = {} THEN Num(0)
                ELSE Mean([i \in 1..Len(pos) |-> f.data[pos[i]][i_y]])
    IN  [index |-> x_keys, columns |-> g_keys,
         values |-> [r \in 1..Len(x_keys) |->
                        [k \in 1..Len(g_keys) |-> cell(x_keys[r], g_keys[k])]]]

\* chart_type == "heatmap"
HeatmapBranch(c, x_col) ==
    LET others == OtherColumns(c.plot_df, x_col, c.y_col)
        pivot_data == PivotTable(c.plot_df, x_col, c.y_col, others[1])
    IN  IF others = <<>> THEN Branch("failed", "heatmap_needs_columns", NoPlot)
        ELSE IF Len(c.plot_df.columns) < MinHeatmapColumns
        THEN \* a dialog asks for the grouping column; the request ends here
             Branch("deferred", "choose_group_column", NoPlot)
        ELSE Branch("ready", "none",
                    Chart("heatmap", <<x_col, others[1], c.y_col>>,
                          <<pivot_data.index, pivot_data.columns, pivot_data.values>>,
                          FALSE, "heatmap", 0, 0, Num(0)))

TickLimit == 20

\* the tick positions of an axis with n labels: every label up to
\* TickLimit, every (n // TickLimit)-th position from 0 above it
TickPositions(n) ==
    IF n > TickLimit
    THEN LET step == Max(1, n \div TickLimit)
         IN  [i \in 1..Ceil(n, step) |-> (i - 1) * step]
    ELSE [i \in 1..n |-> i - 1]

\* the ticks create_heatmap_plot sets on the two axes, and the matrix it
\* has handed to matshow
HeatmapTicks(o) ==
    IF o.res = "ready" /\ o.plot.kind = "heatmap"
    THEN [x |-> TickPositions(Len(o.plot.rows[2])),
          y |-> TickPositions(Len(o.plot.rows[1])),
          matrix |-> o.plot.rows[3]]
    ELSE [x |-> <<>>, y |-> <<>>, matrix |-> <<>>]

MinBinsFD == 10
MaxBinsFD == 50
MinBinsSqrt == 5
MaxBinsSqrt == 30

\* the least h with h^3 >= n
CubeRootCeil(n) == CHOOSE h \in 0..n : h * h * h >= n /\ \A g \in 0..(h - 1) : g * g * g < n

\* int(math.sqrt(n))
IntSqrt(n) == CHOOSE r \in 0..n : r * r <= n /\ (r + 1) * (r + 1) > n

RECURSIVE CommonDenFirst(_, _)
\* a common denominator of the first n values of a column
CommonDenFirst(col, n) ==
    IF n = 0 THEN 1
    ELSE IF n = 1 THEN col[1].d
    ELSE LET h == n \div 2
             low == CommonDenFirst(col, h)
             high == CommonDenFirst(SubSeq(col, h + 1, n), n - h)
         IN  (low * high) \div Gcd(low, high)

CommonDen(col) == CommonDenFirst(col, Len(col))

\* num_bins without the clamps
NumBinsUnclamped(col) ==
    LET den == CommonDen(col)
        sorted == SortSeq([i \in 1..Len(col) |-> (col[i].n * den) \div col[i].d],
                          LAMBDA a, b : a < b)
        n == Len(col)
        iqr == QuantileTimes(sorted, 3, 4) - QuantileTimes(sorted, 1, 4)
        data_range == 4 * (sorted[n] - sorted[1])
        g == Gcd(2 * iqr, data_range)
        width == (2 * iqr) \div g
        span == data_range \div g
        root == CubeRootCeil(n)
        fits == {k \in 1..(2 * MaxBinsFD) :
                    /\ k * width <= root * span
                    /\ (k * width) * (k * width) * (k * width) <= span * span * span * n}
    IN  IF iqr > 0 THEN Cardinality(fits) ELSE IntSqrt(n)

\* num_bins: the Freedman-Diaconis rule, int(range / (2 * IQR / N^(1/3)))
\* clamped to [10, 50], or the square-root rule clamped to [5, 30] when the
\* IQR is 0
NumBins(col) ==
    LET den == CommonDen(col)
        sorted == SortSeq([i \in 1..Len(col) |-> (col[i].n * den) \div col[i].d],
                          LAMBDA a, b : a < b)
        n == Len(col)
        iqr == QuantileTimes(sorted, 3, 4) - QuantileTimes(sorted, 1, 4)
        data_range == 4 * (sorted[n] - sorted[1])
        g == Gcd(2 * iqr, data_range)
        width == (2 * iqr) \div g
        span == data_range \div g
        root == CubeRootCeil(n)
        \* the k in 1..50 with k * 2 * IQR <= range * N^(1/3)
        fits == {k \in 1..MaxBinsFD :
                    /\ k * width <= root * span
                    /\ (k * width) * (k * width) * (k * width) <= span * span * span * n}
    IN  IF iqr > 0 THEN Max(MinBinsFD, Min(MaxBinsFD, Cardinality(fits)))
        ELSE Min(MaxBinsSqrt, Max(MinBinsSqrt, IntSqrt(n)))

\* chart_type == "histogram": on the log-scale policy the x axis is
\* logarithmic when every value is positive, and the values are shifted by
\* |min| + 1 otherwise
HistogramBranch(c, x_col) ==
    LET ys == Column(c.plot_df, c.y_col)
        log_policy == c.bound /\ c.has_extreme_outliers /\ c.use_log_scale
        all_positive == \A i \in 1..Len(ys) : ys[i].n > 0
        lowest == CHOOSE m \in Range(ys) : \A o \in Range(ys) : NumLeq(m, o)
        shift == IF log_policy /\ ~all_positive THEN RatAdd(Abs(lowest), Num(1)) ELSE Num(0)
    IN  IF FrameLen(c.plot_df) = 0 THEN Branch("failed", "no_histogram_data", NoPlot)
        ELSE Branch("ready", "none",
                    Drawn(c, "histogram", c.plot_df, x_col, log_policy /\ all_positive,
                          NumBins(ys), shift))

(***************************************************************************)
(* create_plot.                                                             *)
(***************************************************************************)
NoQuestion == [count |-> FALSE, top |-> FALSE, outlier |-> FALSE]

\* the branch of the internal chart type
KindBranch(chart, c, x_col) ==
    CASE chart = "bar" -> BarBranch(c, x_col)
      [] chart = "line" -> LineBranch(c, x_col)
      [] chart = "scatter" -> ScatterBranch(c, x_col)
      [] chart = "pie" -> PieBranch(c, x_col)
      [] chart = "heatmap" -> HeatmapBranch(c, x_col)
      [] chart = "histogram" -> HistogramBranch(c, x_col)

\* the table create_plot works on: the row sample when there is one
WorkTable(d, sd) == IF sd.some THEN sd ELSE d

\* Rejected with the previous plot cleared before the request is rejected
RejectedAfterClear(failure, plot, display) ==
    Outcome("invalid", failure, NoPlot, <<"Validating", "Failed">>, display, NoQuestion)

\* a request rejected by validation: the warning is shown and create_plot
\* returns, before the chart type is read or the plot frame cleared
Rejected(failure, plot, display) ==
    Outcome("invalid", failure, plot, <<"Validating", "Failed">>, display, NoQuestion)

\* one create_plot request on table d with row sample sd, selection
\* (x_col, y_col), chart selection `display`, plot frame `plot`, and the
\* answers `a` to the dialogs it shows
Prepare(d, sd, x_col, y_col, display, plot, a) ==
    LET valid == Validate(d, x_col, y_col, TRUE)
        shown == IF display = "" THEN "zhexiantu" ELSE display
        chart == ResolveChartType(display)
        work_df == WorkTable(d, sd)
    IN  IF valid # "ok"
        THEN Rejected(valid, plot, display)
        ELSE IF ~HasColumn(work_df, y_col)
        THEN \* the row sample is of another table: KeyError
             Outcome("failed", "plot_error", plot, <<"Validating", "Failed">>, shown,
                     NoQuestion)
        ELSE IF ~HasColumn(work_df, x_col)
        THEN IF ~AskCount(work_df, y_col)
             THEN \* KeyError at plot_df[x_col], after cleaning and after the
                  \* plot was cleared
                  Outcome("failed", "plot_error", NoPlot,
                          <<"Validating", "Cleaning", "Failed">>, shown,
                          [NoQuestion EXCEPT !.outlier = AskOutlier(work_df, y_col)])
             ELSE IF a.count
             THEN Outcome("failed", "plot_error", plot, <<"Validating", "Failed">>, shown,
                          [NoQuestion EXCEPT !.count = TRUE])
             ELSE Outcome("declined", "choose_numeric_y", plot,
                          <<"Validating", "Failed">>, shown,
                          [NoQuestion EXCEPT !.count = TRUE])
        ELSE \* the data are cleaned once, and the branch of the kind runs once
             CHOOSE o \in
                 {IF ~c.ok
                  THEN Outcome("declined", "choose_numeric_y", plot,
                               <<"Validating", "Failed">>, shown, c.asked)
                  ELSE CHOOSE e \in
                           {Outcome(b.res, b.msg, b.chart,
                                    c.stages
                                        \o <<"Aggregating",
                                             IF b.res = "ready" THEN "Ready" ELSE "Failed">>,
                                    shown, c.asked) :
                               b \in {KindBranch(chart, c, x_col)}} : TRUE :
                     c \in {Cleaned(work_df, x_col, y_col, chart, a)}} : TRUE

\* the slices drawn by a request that reached the pie drawing call
PieDrawn(d, sd, x_col, y_col, a, o) ==
    IF o.msg = "pie_error"
    THEN PieSlices(Cleaned(WorkTable(d, sd), x_col, y_col, "pie", a), x_col)
    ELSE <<>>

\* the answers to dialogs that are not shown are left at their defaults
Answered(d, sd, x_col, y_col, a) ==
    LET work_df == WorkTable(d, sd)
        reached == Validate(d, x_col, y_col, TRUE) = "ok" /\ HasColumn(work_df, y_col)
    IN  /\ a.count \/ (reached /\ AskCount(work_df, y_col))
        /\ a.top \/ (reached /\ HasColumn(work_df, x_col) /\ AskTop(work_df, x_col, y_col, a))
        /\ a.outlier = "keep" \/ (reached /\ AskOutlier(work_df, y_col))

\* create_plot cleaning work_df itself instead of a copy of it
create_plot_in_place(a) ==
    /\ Answered(df, sampled_df, x_column, y_column, a)
    /\ \E o \in {Prepare(df, sampled_df, x_column, y_column, chart_type, plot_frame, a)} :
        /\ last' = Done("create_plot",
                        [count |-> a.count, top |-> a.top, outlier |-> a.outlier,
                         asked |-> o.asked,
                         pie |-> PieDrawn(df, sampled_df, x_column, y_column, a, o),
                         ticks |-> HeatmapTicks(o)],
                        o.res, o.stages)
        /\ plot_frame' = o.plot
        /\ chart_type' = o.chart_type
        /\ msg' = o.msg
        /\ LET work_df == WorkTable(df, sampled_df)
               cleaned ==
                   IF /\ Validate(df, x_column, y_column, TRUE) = "ok"
                      /\ HasColumn(work_df, x_column)
                      /\ HasColumn(work_df, y_column)
                      /\ ~AskCount(work_df, y_column)
                   THEN Cleaned(work_df, x_column, y_column,
                                ResolveChartType(chart_type), a).plot_df
                   ELSE work_df
           IN  IF sampled_df.some
               THEN sampled_df' = cleaned /\ UNCHANGED df
               ELSE df' = cleaned /\ UNCHANGED sampled_df
        /\ UNCHANGED <<x_column, y_column>>
        /\ UNCHANGED viewVars

create_plot(a) ==
    /\ Answered(df, sampled_df, x_column, y_column, a)
    /\ \E o \in {Prepare(df, sampled_df, x_column, y_column, chart_type, plot_frame, a)} :
        /\ last' = Done("create_plot",
                        [count |-> a.count, top |-> a.top, outlier |-> a.outlier,
                         asked |-> o.asked,
                         pie |-> PieDrawn(df, sampled_df, x_column, y_column, a, o),
                         ticks |-> HeatmapTicks(o)],
                        o.res, o.stages)
        /\ plot_frame' = o.plot
        /\ chart_type' = o.chart_type
        /\ msg' = o.msg
        /\ UNCHANGED <<df, sampled_df, x_column, y_column>>
        /\ UNCHANGED viewVars

(***************************************************************************)
(* The tables and inputs of the chart specification.                        *)
(***************************************************************************)
ChartRows == 51

\* a text cell: a letter followed by the digits of n
Label(letter, n) == Str(<<letter>> \o NatDigits(n))

\* a column read as text, as a CSV column holding a non-number is: digits,
\* a word on every 10th row, nothing on every 17th
ValCell(i) ==
    IF i % 17 = 0 THEN NaN
    ELSE IF i % 10 = 0 THEN Str(<<"x">>)
    ELSE Str(NatDigits(((i * 7) % 23) + 1))

\* a table with numeric columns: 7, 8, ChartRows and 50 distinct labels,
\* a text column with convertible values and a numeric key
ChartTableN ==
    Frame(<<"grp", "mid", "name", "half", "val", "id">>, RangeIndex(ChartRows),
          [i \in 1..ChartRows |->
              <<Label("g", i % 7), Label("m", i % 8), Label("r", i),
                Label("h", i % 50), ValCell(i), Num(i)>>])

\* a table without any numeric column
ChartTableT ==
    Frame(<<"city", "name", "txt">>, RangeIndex(ChartRows),
          [i \in 1..ChartRows |->
              <<Label("c", i % 5), Label("r", i),
                IF i % 4 = 0 THEN NaN ELSE Str(<<"t">>)>>])

\* a database table whose first column has the empty name
ChartTableE ==
    Frame(<<"", "n">>, RangeIndex(2), <<<<Str(<<"a">>), Num(1)>>, <<Str(<<"b">>), Num(2)>>>>)

CsvTables == {None, ChartTableN}

DbTables == {None, ChartTableT, ChartTableE}

\* the columns picked for the x axis and for the y axis
XNames == {"grp", "mid", "half", "name", "id", "city"}

YNames == {"val", "txt", "name"}

\* the chart kinds picked in the chart combobox
ChartKinds == {"zhuzhuangtu", "zhifangtu"}

\* the user picks another column than the one of the other axis
NextChart ==
    \/ \E file \in CsvTables : load_csv(file)
    \/ \E table \in DbTables : load_from_db(table)
    \/ \E selected \in XNames \ {y_column} : on_x_selected(selected)
    \/ \E selected \in YNames \ {x_column} : on_y_selected(selected)
    \/ \E display \in ChartKinds : chart_combobox_select(display)
    \/ suggest_visualization
    \/ \E a \in Answers : create_plot(a)

SpecChart == Init /\ [][NextChart]_vars

(***************************************************************************)
(* The tables and inputs of the cleaning specification: small tables whose  *)
(* y column has extreme values, values <= 0 or missing cells.               *)
(***************************************************************************)
OutlierRows == 12
BarRows == 40

\* the table of scenario A
ScenarioA ==
    Frame(<<"x", "y">>, RangeIndex(5),
          <<<<Num(1), Num(10)>>, <<Num(2), Num(20)>>, <<Num(3), Num(30)>>,
            <<Num(4), Num(40)>>, <<Num(5), Num(5000)>>>>)

\* a negative value, a zero, a missing cell, the running numbers and one
\* extreme value
OutlierTable ==
    Frame(<<"x", "y">>, RangeIndex(OutlierRows),
          [i \in 1..OutlierRows |->
              <<Label("a", i),
                CASE i = 1 -> Num(-3)
                  [] i = 2 -> Num(0)
                  [] i = 3 -> NaN
                  [] i = OutlierRows -> Num(900)
                  [] OTHER -> Num(i)>>])

\* no positive value, and a maximum above Q3 + 5 * IQR
NonPositiveTable ==
    Frame(<<"x", "y">>, RangeIndex(5),
          [i \in 1..5 |-> <<Label("b", i), IF i = 5 THEN Num(0) ELSE Num(-100)>>])

\* the values of scenario A in a column of the file that is named Count
CountNamedTable ==
    Frame(<<"x", "Count">>, RangeIndex(5),
          [i \in 1..5 |-> <<Label("c", i), IF i = 5 THEN Num(5000) ELSE Num(10 * i)>>])

\* a single row
OneRowTable == Frame(<<"x", "y">>, RangeIndex(1), <<<<Label("r", 1), Num(1)>>>>)

\* 35 x groups, the first ones with two rows; y is the row number
BarTable ==
    Frame(<<"x", "y">>, RangeIndex(BarRows),
          [i \in 1..BarRows |-> <<Label("g", i % 35), Num(i)>>])

PrepTables ==
    {ScenarioA, OutlierTable, NonPositiveTable, CountNamedTable, OneRowTable, BarTable}

PrepYNames == {"y", "Count"}

PrepKinds == {"zhexiantu", "zhuzhuangtu", "sandiantu"}

\* requests are made with two different columns selected
NextPrep ==
    \/ \E file \in PrepTables \cup {None} : load_csv(file)
    \/ \E selected \in PrepYNames : on_y_selected(selected)
    \/ \E display \in PrepKinds : chart_combobox_select(display)
    \/ \E a \in Answers : x_column # y_column /\ create_plot(a)

\* the cleaning index: loading a table and requesting charts of it
SpecPrep == Init /\ [][NextPrep]_vars

(***************************************************************************)
(* The tables and inputs of the row-cap specification: tables with more     *)
(* rows than the sample size.                                               *)
(***************************************************************************)
BigRows == 1500

\* BigRows rows with a numeric y
BigTable ==
    Frame(<<"x", "y">>, RangeIndex(BigRows),
          [i \in 1..BigRows |-> <<Num(i), Num(i % 50)>>])

\* BigRows rows, every fourth without a y value
GapTable ==
    Frame(<<"x", "y">>, RangeIndex(BigRows),
          [i \in 1..BigRows |-> <<Num(i), IF i % 4 = 0 THEN NaN ELSE Num(i % 50)>>])

CapTables == {BigTable, GapTable}

CapKinds == {"zhexiantu", "sandiantu"}

\* requests are made with two different columns selected
NextCap ==
    \/ \E file \in CapTables \cup {None} : load_csv(file)
    \/ \E table \in CapTables \cup {None} : load_from_db(table)
    \/ on_y_selected("y")
    \/ \E display \in CapKinds : chart_combobox_select(display)
    \/ \E a \in Answers : x_column # y_column /\ create_plot(a)

\* the row-cap index: loading a large table and requesting charts of it
SpecCap == Init /\ [][NextCap]_vars

(***************************************************************************)
(* The tables and inputs of the pie specification: one x group per row and  *)
(* a second row for the first group; zeros, and a negative value.           *)
(***************************************************************************)
PieGroups == 12

\* n groups; y is the row number, 0 in the `zeros` groups after the first
\* and negative in the last group when `negative`
PieTable(n, zeros, negative) ==
    Frame(<<"x", "y">>, RangeIndex(n + 1),
          [i \in 1..(n + 1) |->
              <<Label("g", ((i - 1) % n) + 1),
                IF i = n + 1 THEN Num(1)
                ELSE IF i >= 2 /\ i <= zeros + 1 THEN Num(0)
                ELSE IF negative /\ i = n THEN Num(-i)
                ELSE Num(i)>>])

\* a y column of zeros only
ZeroTable == Frame(<<"x", "y">>, RangeIndex(3), [i \in 1..3 |-> <<Label("g", i), Num(0)>>])

\* no numeric column: PieGroups x values, the first ones on two rows
TextPieTable ==
    Frame(<<"x", "t">>, RangeIndex(PieGroups + 3),
          [i \in 1..(PieGroups + 3) |-> <<Label("g", ((i - 1) % PieGroups) + 1), Str(<<"t">>)>>])

PieTables ==
    {PieTable(n, zeros, negative) :
        n \in (PieGroups - 3)..PieGroups, zeros \in {0, 2, 3}, negative \in BOOLEAN}
        \cup {ZeroTable, TextPieTable}

PieKinds == {"bingtu", "zhuzhuangtu"}

NextPie ==
    \/ \E file \in PieTables \cup {None} : load_csv(file)
    \/ \E display \in PieKinds : chart_combobox_select(display)
    \/ \E a \in Answers : create_plot(a)

\* the pie index: loading a table and requesting pie charts of it
SpecPie == Init /\ [][NextPie]_vars

(***************************************************************************)
(* The tables and inputs of the histogram specification: columns with a     *)
(* long tail, columns whose quartiles coincide, and large tables.           *)
(***************************************************************************)
HistRows == 27
FlatRows == 40
ManyRows == 970

\* HistRows rows with the y values 1..4 and one row with the value tail
TailTable(tail) ==
    Frame(<<"x", "y">>, RangeIndex(HistRows),
          [i \in 1..HistRows |-> <<Label("r", i), IF i = HistRows THEN Num(tail) ELSE Num((i % 4) + 1)>>])

\* n rows with the y value 7, but 1 on the first row
FlatTable(n) ==
    Frame(<<"x", "y">>, RangeIndex(n),
          [i \in 1..n |-> <<Label("g", i % 3), IF i = 1 THEN Num(1) ELSE Num(7)>>])

HistTables ==
    {TailTable(11), TailTable(21), TailTable(81),
     FlatTable(9), FlatTable(FlatRows), FlatTable(ManyRows)}

HistKinds == {"zhifangtu", "zhuzhuangtu"}

NextHist ==
    \/ \E file \in HistTables : load_csv(file)
    \/ \E display \in HistKinds : chart_combobox_select(display)
    \/ \E a \in Answers : create_plot(a)

\* the histogram index: loading a table and requesting histograms and bar
\* charts of it
SpecHist == Init /\ [][NextHist]_vars

(***************************************************************************)
(* The tables and inputs of the heatmap specification: tables with a        *)
(* grouping column and about TickLimit labels on either axis.               *)
(***************************************************************************)
HeatLabels == 21

\* a table with n x labels and m group labels
HeatTable(n, m) ==
    Frame(<<"x", "grp", "y">>, RangeIndex(Max(n, m)),
          [i \in 1..Max(n, m) |-> <<Label("x", i % n), Label("k", i % m), Num(i)>>])

HeatTables ==
    {HeatTable(n, m) :
        n \in {HeatLabels - 1, HeatLabels, 2 * HeatLabels - 2, 2 * HeatLabels - 1},
        m \in {2, HeatLabels}}

HeatKinds == {"relitu", "zhuzhuangtu"}

NextHeat ==
    \/ \E file \in HeatTables : load_csv(file)
    \/ \E display \in HeatKinds : chart_combobox_select(display)
    \/ \E a \in Answers : create_plot(a)

\* the heatmap index: loading a table and requesting heatmaps of it
SpecHeat == Init /\ [][NextHeat]_vars

(***************************************************************************)
(* The tables and inputs of the line specification: x columns holding       *)
(* dates, numbers written as text and words, and tables of one usable row.  *)
(***************************************************************************)
LineRows == 8

\* a day of January 2024, later for smaller i
DateCell(i) == Str(<<"2", "0", "2", "4", "-", "0", "1", "-">> \o NatDigits(30 - i))

\* a number written as text, smaller for larger i
DigitCell(i) == Str(NatDigits(30 - i))

\* a word, earlier in the alphabet for larger i
WordCell(i) == Label("t", 30 - i)

\* LineRows rows: LineHead dates, then words
DatesThenWords ==
    Frame(<<"x", "y">>, RangeIndex(LineRows),
          [i \in 1..LineRows |-> <<IF i <= LineHead THEN DateCell(i) ELSE WordCell(i), Num(i)>>])

\* LineRows rows: a word, then dates
WordThenDates ==
    Frame(<<"x", "y">>, RangeIndex(LineRows),
          [i \in 1..LineRows |-> <<IF i = 1 THEN WordCell(i) ELSE DateCell(i), Num(i)>>])

\* as many dates as words, the dates first
HalfDates ==
    Frame(<<"x", "y">>, RangeIndex(2 * LineHead),
          [i \in 1..(2 * LineHead) |-> <<IF i <= LineHead THEN DateCell(i) ELSE WordCell(i), Num(i)>>])

\* LineRows rows: a word, then numbers written as text
WordThenDigits ==
    Frame(<<"x", "y">>, RangeIndex(LineRows),
          [i \in 1..LineRows |-> <<IF i = 1 THEN WordCell(i) ELSE DigitCell(i), Num(i)>>])

\* as many words as numbers written as text, the words first
HalfDigits ==
    Frame(<<"x", "y">>, RangeIndex(LineRows - (LineRows % 2)),
          [i \in 1..(LineRows - (LineRows % 2)) |->
              <<IF 2 * i <= LineRows THEN WordCell(i) ELSE DigitCell(i), Num(i)>>])

\* LineRows rows of words
WordsTable ==
    Frame(<<"x", "y">>, RangeIndex(LineRows),
          [i \in 1..LineRows |-> <<WordCell(i), Num(i)>>])

\* three rows, one of them with a y value
OneUsableRow ==
    Frame(<<"x", "y">>, RangeIndex(3),
          [i \in 1..3 |-> <<WordCell(i), IF i = 2 THEN Num(5) ELSE NaN>>])

LineTables ==
    {DatesThenWords, WordThenDates, HalfDates, WordThenDigits, HalfDigits, WordsTable,
     OneUsableRow, OneRowTable}

LineKinds == {"zhexiantu", "sandiantu"}

\* requests are made with two different columns selected
NextLine ==
    \/ \E file \in LineTables : load_csv(file)
    \/ on_y_selected("y")
    \/ \E display \in LineKinds : chart_combobox_select(display)
    \/ \E a \in Answers : x_column # y_column /\ create_plot(a)

\* the line index: loading a table and requesting line and scatter charts
SpecLine == Init /\ [][NextLine]_vars

(***************************************************************************)
(* The tables and inputs of the sharing specification: a table with more    *)
(* rows than the sample size and the table of scenario A, charted with      *)
(* every kind and browsed while a chart is displayed.                       *)
(***************************************************************************)
ShareRows == 1001

\* ShareRows rows: 8 x values, 2 grp groups and a numeric y
ShareTable ==
    Frame(<<"x", "grp", "y">>, RangeIndex(ShareRows),
          [i \in 1..ShareRows |->
              <<Num(i % 8), Label("h", i % 2), Num(((i * 7) % 50) + 1)>>])

ShareTables == {ShareTable, ScenarioA}

ShareKinds == {"zhexiantu", "zhuzhuangtu", "sandiantu", "bingtu", "relitu", "zhifangtu"}

\* the text searched for: it matches rows of the large table only
ShareText == <<"h", "1">>

\* the y column of these tables is numeric: the count questions are not
\* asked and their answers are left at yes
ShareAnswers == {a \in Answers : a.count /\ a.top}

\* pages turned forward in a browsing session
SharePages == 1

\* no chart was requested yet
NoChartYet == plot_frame = NoPlot /\ last.op # "create_plot"

\* the table, the y column and the chart kind are chosen (or recommended)
\* before the first request; the data view is browsed while a chart is
\* displayed
NextShare ==
    \/ \E file \in ShareTables : NoChartYet /\ load_csv(file)
    \/ NoChartYet /\ on_y_selected("y")
    \/ \E display \in ShareKinds : NoChartYet /\ chart_combobox_select(display)
    \/ NoChartYet /\ suggest_visualization
    \/ \E a \in ShareAnswers : x_column # y_column /\ create_plot(a)
    \/ ~NoChartYet /\ search_data(ShareText)
    \/ ~NoChartYet /\ clear_search
    \/ ~NoChartYet /\ prev_page
    \/ ~NoChartYet /\ current_page < SharePages /\ next_page

\* the sharing index: charts and searches on the same table
SpecShare == Init /\ [][NextShare]_vars

(***************************************************************************)
(* Properties of the chart specification.                                   *)
(***************************************************************************)
\* the number of distinct non-missing values of column `name` of the table
DistinctValues(name) ==
    Cardinality({c \in Range(Column(df, name)) : c.k # "nan"})

\* column `name` of the table has a numerically convertible value
Convertible(name) ==
    \E c \in Range(Column(df, name)) : ToNumeric(c).k = "num"

\* the chart kind the ordered policy gives the selection
PolicyKind ==
    IF ~Convertible(y_column) THEN "bar"
    ELSE IF DistinctValues(x_column) <= 7 THEN "pie"
    ELSE IF DistinctValues(x_column) > 50
    THEN IF Convertible(x_column) THEN "scatter" ELSE "histogram"
    ELSE "bar"

\* a table is loaded and x and y are selected columns of it
PairSelected ==
    /\ df.some
    /\ x_column # "" /\ y_column # ""
    /\ HasColumn(df, x_column) /\ HasColumn(df, y_column)

\* C1: for every loaded table and every selected pair (x, y),
\* suggest_visualization recommends exactly the kind of the ordered policy:
\* bar if y has no convertible value; else pie if x has at most 7 distinct
\* non-missing values; else, with more than 50 distinct x values, scatter
\* when x has a convertible value and histogram when it has none; else bar.
C1_RecommendationPolicy ==
    (last.op = "suggest_visualization" /\ PairSelected)
        => /\ last.res = "recommended"
           /\ chart_type = PolicyKind
           /\ chart_type \in {"bar", "pie", "scatter", "histogram"}

\* a recommendation of scatter for a numeric x with more than 50 values
C1_Witness ==
    /\ last.op = "suggest_visualization"
    /\ last.res = "recommended"
    /\ PairSelected
    /\ DistinctValues(x_column) > 50
    /\ chart_type = "scatter"

\* the last request was a bar request answered with the count fallback
CountFallbackBar ==
    /\ last.op = "create_plot"
    /\ PairSelected
    /\ ~Convertible(y_column)
    /\ last.arg.count
    /\ ResolveChartType(chart_type) = "bar"

\* C2: when y has no numerically convertible value and the count fallback
\* is used, a create_plot request of kind bar skips Cleaning, reaches Ready,
\* and its series has the columns (x, Count), Count(v) being the number of
\* rows whose x value is v.
C2_CountFallbackBarReady ==
    CountFallbackBar
        => /\ last.stages = <<"Validating", "Aggregating", "Ready">>
           /\ plot_frame.kind = "bar"
           /\ plot_frame.columns = <<x_column, "Count">>
           /\ \A i \in 1..Len(plot_frame.rows) :
                  plot_frame.rows[i][2] =
                      Num(Cardinality({r \in 1..FrameLen(df) :
                                          Column(df, x_column)[r] = plot_frame.rows[i][1]}))

\* the validation failure of a request in the current state, "ok" if none;
\* only create_plot checks that the names are columns
ValidationFailure(op) ==
    IF ~df.some THEN "no_data_to_plot"
    ELSE IF x_column = "" \/ y_column = "" THEN "select_columns"
    ELSE IF op = "create_plot" /\ x_column \notin Range(df.columns) THEN "x_not_in_table"
    ELSE IF op = "create_plot" /\ y_column \notin Range(df.columns) THEN "y_not_in_table"
    ELSE "ok"

\* C10: a validation failure ends the request before any other stage:
\* suggest_visualization and create_plot invoked with no table, with x or y
\* unset, or (create_plot) with an x or y name that is not a column, report
\* the failure and leave the chart-kind selection, the displayed chart and
\* the table unchanged, without entering Cleaning or Aggregating.
C10_ValidationStops ==
    [][(/\ last'.op \in {"suggest_visualization", "create_plot"}
        /\ ValidationFailure(last'.op) # "ok")
           => /\ last'.res = "invalid"
              /\ msg' = ValidationFailure(last'.op)
              /\ UNCHANGED <<chart_type, plot_frame, df, sampled_df, x_column, y_column>>
              /\ "Cleaning" \notin Range(last'.stages)
              /\ "Aggregating" \notin Range(last'.stages)]_vars

\* a create_plot request that failed validation while a chart was displayed
C10_Witness ==
    /\ last.op = "create_plot"
    /\ last.res = "invalid"
    /\ msg = "select_columns"
    /\ plot_frame.kind # "none"

\* the number of rows of the table whose x value is v
RowsWith(v) == Cardinality({r \in 1..FrameLen(df) : Column(df, x_column)[r] = v})

\* the last request drew a chart of the counts per x value
CountChartDrawn ==
    /\ last.op = "create_plot"
    /\ last.res = "ready"
    /\ last.arg.asked.count
    /\ PairSelected
    /\ plot_frame.columns = <<x_column, "Count">>

\* C17: on the count-fallback path the prepared series never has more than
\* 30 x categories: with more than 30 distinct x values only the 30 most
\* frequent are kept, the rest is discarded and no 'others' category is
\* added; with 30 or fewer every category is kept.
C17_CountTopThirty ==
    CountChartDrawn
        => LET kept == {plot_frame.rows[i][1] : i \in 1..Len(plot_frame.rows)}
               all == {c \in Range(Column(df, x_column)) : c.k # "nan"}
           IN  /\ Len(plot_frame.rows) <= 30
               /\ Cardinality(kept) = Len(plot_frame.rows)
               /\ kept \subseteq all
               /\ Cardinality(all) <= 30 => kept = all
               /\ Cardinality(all) > 30 => Cardinality(kept) = 30
               /\ \A v \in kept : \A w \in all \ kept : RowsWith(v) >= RowsWith(w)
               /\ \A i \in 1..Len(plot_frame.rows) :
                      plot_frame.rows[i][2] = Num(RowsWith(plot_frame.rows[i][1]))

(***************************************************************************)
(* Properties of the cleaning specification.                                *)
(***************************************************************************)
\* the chart kind a request asks for
RequestedKind(display) ==
    IF display \in DOMAIN CHART_TYPE_MAP THEN CHART_TYPE_MAP[display] ELSE "line"

\* the reports of a validation failure or of a shortage of data
ValidationOrShortage ==
    {"no_data_to_plot", "select_columns", "x_not_in_table", "y_not_in_table",
     "choose_numeric_y", "not_enough_points", "not_enough_points_after",
     "no_pie_data", "no_histogram_data", "heatmap_needs_columns"}

\* C11: every create_plot request ends either in Ready, with a chart of the
\* requested kind displayed, or in Failed, with an error reported; a request
\* that fails for a validation or data-shortage reason leaves the chart that
\* was displayed before it on display.
C11_AllOrNothing ==
    [][last'.op = "create_plot"
         => \/ /\ last'.stages[Len(last'.stages)] = "Ready"
               /\ plot_frame'.kind = RequestedKind(chart_type')
            \/ /\ last'.stages[Len(last'.stages)] = "Failed"
               /\ msg' # "none"
               /\ msg' \in ValidationOrShortage => plot_frame' = plot_frame]_vars

\* the table a request works on has the selected columns
RequestReached ==
    /\ last.op = "create_plot"
    /\ last.res # "invalid"
    /\ HasColumn(WorkTable(df, sampled_df), x_column)
    /\ HasColumn(WorkTable(df, sampled_df), y_column)

\* the y values of the working table that convert to a number
CoercedY == Column(CoerceAndDrop(WorkTable(df, sampled_df), y_column), y_column)

\* the y column is numeric and max > Q3 + 5 * IQR on its coerced values
ExtremeTest == CoercedY # <<>> /\ HasExtremeOutliers(CoercedY)

\* C12: create_plot requests an outlier policy if and only if the y column
\* is numeric and its coerced values satisfy max > Q3 + 5 * IQR, whatever the
\* name of the column; when the test is false no policy is requested and no
\* outlier transformation is applied.
C12_PolicyRequested ==
    RequestReached
        => /\ last.arg.asked.outlier <=> ExtremeTest
           /\ (~ExtremeTest /\ last.res = "ready")
                  => /\ ~plot_frame.log
                     /\ plot_frame.removed = 0
                     /\ plot_frame.note \in {"none", "count"}

\* the y values of the displayed chart, in the order drawn
ChartY == [i \in 1..Len(plot_frame.rows) |-> plot_frame.rows[i][2]]

\* C13: for the table {x: [1,2,3,4,5], y: [10,20,30,40,5000]} the
\* extreme-outlier test is true, and the remove policy drops only the row
\* with y = 5000, leaving exactly the 4 rows with y = 10, 20, 30, 40.
C13_ScenarioA ==
    (RequestReached /\ df = ScenarioA /\ x_column = "x" /\ y_column = "y")
        => /\ ExtremeTest
           /\ last.arg.asked.outlier
           /\ last.arg.outlier = "remove"
                  => /\ last.res = "ready"
                     /\ ChartY = <<Num(10), Num(20), Num(30), Num(40)>>

\* the rows (x, y) of the coerced working table at the positions `pos`
CoercedRows(pos) ==
    LET coerced == CoerceAndDrop(WorkTable(df, sampled_df), y_column)
    IN  {<<Column(coerced, x_column)[i], Column(coerced, y_column)[i]>> : i \in pos}

\* the positions of the coerced values within [Q1 - 1.5 * IQR, Q3 + 1.5 * IQR]
InsideTukey ==
    LET sorted == SortedInts(CoercedY)
        q1 == QuantileTimes(sorted, 1, 4)
        q3 == QuantileTimes(sorted, 3, 4)
    IN  {i \in 1..Len(CoercedY) :
            /\ 2 * (4 * CoercedY[i].n) >= 2 * q1 - 3 * (q3 - q1)
            /\ 2 * (4 * CoercedY[i].n) <= 2 * q3 + 3 * (q3 - q1)}

\* the positions of the coerced values within [1st, 99th percentile]
InsidePercentiles ==
    LET sorted == SortedInts(CoercedY)
    IN  {i \in 1..Len(CoercedY) :
            /\ 100 * CoercedY[i].n >= QuantileTimes(sorted, 1, 100)
            /\ 100 * CoercedY[i].n <= QuantileTimes(sorted, 99, 100)}

\* the positions the remove policy is to retain
Retained ==
    IF Cardinality(InsideTukey) >= 10 THEN InsideTukey ELSE InsidePercentiles

\* the last request was answered with the remove policy and drew a chart
RemoveApplied ==
    /\ RequestReached
    /\ last.arg.asked.outlier
    /\ last.arg.outlier = "remove"
    /\ last.res = "ready"

\* C14: under the remove policy the retained rows are exactly the coerced
\* rows with y in [Q1 - 1.5 * IQR, Q3 + 1.5 * IQR] when at least 10 such rows
\* exist, and otherwise exactly the coerced rows with y between the 1st and
\* the 99th percentile; the note states the number of rows removed, the
\* coerced row count minus the retained row count, which is never negative.
C14_RemovePolicy ==
    RemoveApplied
        => /\ Range(plot_frame.rows) = CoercedRows(Retained)
           /\ Len(plot_frame.rows) = Cardinality(Retained)
           /\ plot_frame.note = "outliers_removed"
           /\ plot_frame.removed = Len(CoercedY) - Cardinality(Retained)
           /\ plot_frame.removed >= 0

\* the remove policy kept exactly 10 rows inside the 1.5 * IQR fences
C14_Witness ==
    /\ RemoveApplied
    /\ Cardinality(InsideTukey) = 10
    /\ plot_frame.removed = 1

\* the remove policy fell back to the percentiles
C14_WitnessFallback ==
    /\ RemoveApplied
    /\ Cardinality(InsideTukey) < 10
    /\ plot_frame.removed = 2

\* the last request was answered with the log_scale policy and drew a chart
LogScaleApplied ==
    /\ RequestReached
    /\ last.arg.asked.outlier
    /\ last.arg.outlier = "log_scale"
    /\ last.res = "ready"

\* the strictly positive coerced values
PositiveY == {CoercedY[i].n : i \in {j \in 1..Len(CoercedY) : CoercedY[j].n > 0}}

\* the coerced rows with every y <= 0 replaced by a tenth of the least
\* strictly positive value
Replaced ==
    LET coerced == CoerceAndDrop(WorkTable(df, sampled_df), y_column)
        least == CHOOSE m \in PositiveY : \A o \in PositiveY : m <= o
    IN  {<<Column(coerced, x_column)[i],
           IF CoercedY[i].n > 0 THEN CoercedY[i]
           ELSE [k |-> "num", n |-> least \div Gcd(least, 10),
                 d |-> 10 \div Gcd(least, 10), s |-> <<>>]>> : i \in 1..Len(CoercedY)}

\* C15: under the log_scale policy the log-scale flag is set only when the y
\* column has a strictly positive value, and then every y value of the
\* prepared data is strictly positive: each value <= 0 has been replaced by
\* 0.1 times the least strictly positive value, every other value is
\* unchanged.
C15_LogScalePositive ==
    (LogScaleApplied /\ plot_frame.log)
        => /\ PositiveY # {}
           /\ \A i \in 1..Len(plot_frame.rows) : plot_frame.rows[i][2].n > 0
           /\ Range(plot_frame.rows) = Replaced

\* the mean of the coerced y values of the rows whose x value is v
GroupMean(v) ==
    LET coerced == CoerceAndDrop(WorkTable(df, sampled_df), y_column)
    IN  Mean(GroupValues(Column(coerced, x_column), Column(coerced, y_column), v))

\* the x groups of the coerced working table
XGroups ==
    {c \in Range(Column(CoerceAndDrop(WorkTable(df, sampled_df), y_column), x_column)) :
        c.k # "nan"}

\* the last request drew a bar chart of a numeric y with more than 30 groups
BarOfManyGroups ==
    /\ RequestReached
    /\ last.res = "ready"
    /\ plot_frame.kind = "bar"
    /\ CoercedY # <<>>
    /\ ~last.arg.asked.outlier
    /\ Cardinality(XGroups) > 30

\* the x values drawn
DrawnGroups == {plot_frame.rows[i][1] : i \in 1..Len(plot_frame.rows)}

\* C18: for kind bar with a numeric y and more than 30 distinct x values,
\* the prepared series has exactly one value per kept x group, the
\* arithmetic mean of y over the group, and the kept groups are the 30
\* groups with the highest mean; all other groups are discarded.
C18_BarGroupMeans ==
    BarOfManyGroups
        => /\ Cardinality(DrawnGroups) = 30
           /\ Len(plot_frame.rows) = 30
           /\ \A i \in 1..Len(plot_frame.rows) :
                  plot_frame.rows[i][2] = GroupMean(plot_frame.rows[i][1])
           /\ \A v \in DrawnGroups : \A w \in XGroups \ DrawnGroups :
                  NumLeq(GroupMean(w), GroupMean(v))

(***************************************************************************)
(* Properties of the row-cap specification.                                 *)
(***************************************************************************)
\* the number of rows of the table whose y value converts to a number
CleanedTableRows ==
    Cardinality({i \in 1..FrameLen(df) : NotNa(ToNumeric(Column(df, y_column)[i]))})

\* C16: for a line or scatter request, whenever more than 1000 rows are left
\* after cleaning the y column of the table, the prepared chart has exactly
\* 1000 rows, and otherwise it has all cleaned rows; a table of 1500 rows
\* requested as scatter yields exactly 1000 rows.
C16_RowCap ==
    (/\ last.op = "create_plot"
     /\ last.res = "ready"
     /\ plot_frame.kind \in {"line", "scatter"}
     /\ ~last.arg.asked.outlier)
        => Len(plot_frame.rows) = IF CleanedTableRows > 1000 THEN 1000
                                  ELSE CleanedTableRows

(***************************************************************************)
(* Properties of the pie specification.                                     *)
(***************************************************************************)
\* the last request reached the pie drawing call
PieReached ==
    /\ last.op = "create_plot"
    /\ msg = "pie_error"
    /\ PairSelected

\* the slices the last request drew
Slices == last.arg.pie

\* the x groups of the table, ascending
PieKeys == GroupKeys(Column(df, x_column))

\* the sum of y over the rows of group v, or the number of its rows on the
\* count fallback
GroupTotal(v) ==
    IF Convertible(y_column)
    THEN LET coerced == CoerceAndDrop(df, y_column)
         IN  SumCells(GroupValues(Column(coerced, x_column), Column(coerced, y_column), v))
    ELSE Num(RowsWith(v))

\* the group values before collapsing, negative sums replaced by their
\* absolute value
PreCollapse == [i \in 1..Len(PieKeys) |-> Abs(GroupTotal(PieKeys[i]))]

\* C19: pie aggregation loses no mass and has no negative slice: the sum of
\* the slice values after the top-9 collapsing equals the sum of the group
\* values before it (negative group sums replaced by their absolute
\* values), and every slice value is >= 0.
C19_PieMass ==
    PieReached
        => /\ SumCells([i \in 1..Len(Slices) |-> Slices[i].y]) = SumCells(PreCollapse)
           /\ \A i \in 1..Len(Slices) : Slices[i].y.n >= 0

\* a pie of more than 10 groups, one of them with a negative sum, collapsed
\* to 9 groups and the slice of the others
C19_Witness ==
    /\ PieReached
    /\ Len(PieKeys) > 10
    /\ \E i \in 1..Len(PieKeys) : GroupTotal(PieKeys[i]).n < 0
    /\ Len(Slices) = 10
    /\ Slices[10].v = OtherLabel

\* the groups drawn as slices of their own
OwnSlices == {i \in 1..Len(Slices) : Slices[i].v # OtherLabel}

\* the sum of the values of the groups that have no slice of their own
RestTotal ==
    LET own == {Slices[i].v : i \in OwnSlices}
        rest == SelectSeq(PieKeys, LAMBDA v : v \notin own)
    IN  SumCells([i \in 1..Len(rest) |-> Abs(GroupTotal(rest[i]))])

\* C20: when pie aggregation yields more than 10 groups, the result is the 9
\* groups with the largest values plus a single 'Other' slice holding the
\* sum of the remaining groups, present only if that sum is > 0, so that
\* the result never has more than 10 slices; with 10 or fewer groups nothing
\* is collapsed.
C20_PieCollapse ==
    PieReached
        => /\ Len(Slices) <= 10
           /\ \A i \in OwnSlices : \E k \in 1..Len(PieKeys) :
                  Slices[i].v = PieKeys[k] /\ Slices[i].y = PreCollapse[k]
           /\ Len(PieKeys) <= 10
                  => Cardinality(OwnSlices) = Len(PieKeys) /\ Len(Slices) = Len(PieKeys)
           /\ Len(PieKeys) > 10
                  => /\ Cardinality(OwnSlices) = 9
                     /\ \A i \in OwnSlices : \A k \in 1..Len(PieKeys) :
                            \/ \E j \in OwnSlices : Slices[j].v = PieKeys[k]
                            \/ NumLeq(PreCollapse[k], Slices[i].y)
                     /\ IF RestTotal.n > 0
                        THEN /\ Len(Slices) = 10
                             /\ \E i \in 1..10 : Slices[i] = [v |-> OtherLabel, y |-> RestTotal]
                        ELSE Len(Slices) = 9

(***************************************************************************)
(* Properties of the histogram specification.                               *)
(***************************************************************************)
\* the last request drew a histogram
HistogramDrawn ==
    /\ last.op = "create_plot"
    /\ last.res = "ready"
    /\ plot_frame.kind = "histogram"

\* 4 * IQR of the y values drawn
DrawnIQR == Quartiles(ChartY).iqr

\* bins is int(range / (2 * IQR / N^(1/3))) clamped to [10, 50]: when the
\* lower clamp is not taken bins is at most the quotient, when the upper
\* clamp is not taken bins + 1 is above it
FreedmanDiaconis(bins) ==
    LET sorted == SortedInts(ChartY)
        n == Len(sorted)
        g == Gcd(2 * DrawnIQR, 4 * (sorted[n] - sorted[1]))
        width == (2 * DrawnIQR) \div g
        span == (4 * (sorted[n] - sorted[1])) \div g
    IN  /\ bins > MinBinsFD
            => (bins * width) * (bins * width) * (bins * width) <= span * span * span * n
        /\ bins < MaxBinsFD
            => ((bins + 1) * width) * ((bins + 1) * width) * ((bins + 1) * width)
                   > span * span * span * n

\* C21: for every non-empty cleaned y column the histogram bin count is an
\* integer in [10, 50] whenever IQR > 0 (the Freedman-Diaconis quotient
\* range / (2 * IQR / N^(1/3)), clamped) and an integer in [5, 30] whenever
\* IQR = 0 (the square root of N, clamped).
C21_BinCount ==
    HistogramDrawn
        => IF DrawnIQR > 0
           THEN /\ plot_frame.bins \in 10..50
                /\ FreedmanDiaconis(plot_frame.bins)
           ELSE /\ plot_frame.bins \in 5..30
                /\ plot_frame.bins = Min(30, Max(5, IntSqrt(Len(ChartY))))

\* a histogram of a column with IQR > 0 whose quotient needs no clamp
C21_Witness ==
    /\ HistogramDrawn
    /\ DrawnIQR > 0
    /\ plot_frame.bins > 10
    /\ plot_frame.bins < 50

\* a histogram of a column with IQR = 0 and more than 30 * 30 rows
C21_WitnessSquareRoot ==
    /\ HistogramDrawn
    /\ DrawnIQR = 0
    /\ Len(ChartY) > 900
    /\ plot_frame.bins = 30

(***************************************************************************)
(* Properties of the heatmap specification.                                 *)
(***************************************************************************)
\* the last request drew a heatmap
HeatmapDrawn ==
    /\ last.op = "create_plot"
    /\ last.res = "ready"
    /\ plot_frame.kind = "heatmap"

\* the positions are evenly spaced from index 0 and inside the axis
EvenlySpaced(positions, n) ==
    /\ positions # <<>>
    /\ positions[1] = 0
    /\ \E step \in 1..n : \A i \in 1..Len(positions) : positions[i] = (i - 1) * step
    /\ positions[Len(positions)] < n

\* the ticks of an axis with n labels are thinned as stated
Thinned(positions, n) ==
    IF n > 20
    THEN Len(positions) <= 20 /\ EvenlySpaced(positions, n)
    ELSE positions = [i \in 1..n |-> i - 1]

\* C22: heatmap tick thinning: for every axis with n > 20 distinct labels
\* the number of tick positions selected for display is at most 20 and the
\* positions are evenly spaced starting at index 0; for n <= 20 every label
\* is shown; in both cases the pivot matrix passed to the renderer is not
\* changed by thinning.
C22_TickThinning ==
    HeatmapDrawn
        => /\ Thinned(last.arg.ticks.x, Len(plot_frame.rows[2]))
           /\ Thinned(last.arg.ticks.y, Len(plot_frame.rows[1]))
           /\ last.arg.ticks.matrix = plot_frame.rows[3]
           /\ Len(plot_frame.rows[3]) = Len(plot_frame.rows[1])

(***************************************************************************)
(* Properties of the line specification.                                    *)
(***************************************************************************)
\* the rows of the working table that are left after cleaning the y column
UsableRows == CoerceAndDrop(WorkTable(df, sampled_df), y_column)

\* a line request on at least two usable rows
LineRequest ==
    /\ RequestReached
    /\ RequestedKind(chart_type) = "line"
    /\ Convertible(y_column)
    /\ FrameLen(UsableRows) >= 2

\* the x values of the usable rows that parse as dates, and as numbers
DateRows == {i \in 1..FrameLen(UsableRows) : IsDateValue(Column(UsableRows, x_column)[i])}

NumberRows == {i \in 1..FrameLen(UsableRows) : NotNa(ToNumeric(Column(UsableRows, x_column)[i]))}

\* the usable rows in the order of the stated priority
PriorityOrder ==
    LET xs == Column(UsableRows, x_column)
        len == FrameLen(UsableRows)
        dates == [i \in 1..len |-> IF i \in DateRows THEN xs[i] ELSE NaN]
        numbers == [i \in 1..len |-> ToNumeric(xs[i])]
    IN  IF 2 * Cardinality(DateRows) >= len
        THEN TakeRows(SortRowsBy(UsableRows, dates), [i \in 1..Cardinality(DateRows) |-> i])
        ELSE IF 2 * Cardinality(NumberRows) >= len
        THEN TakeRows(SortRowsBy(UsableRows, numbers),
                      [i \in 1..Cardinality(NumberRows) |-> i])
        ELSE SortRowsBy(UsableRows, xs)

\* C23: line ordering follows the fixed priority: if at least 50% of the x
\* values parse as dates the rows are sorted chronologically and the rows
\* with an unparseable x are dropped; otherwise, if at least 50% parse as
\* numbers the rows are sorted numerically and the unparseable rows are
\* dropped; otherwise the rows are sorted lexicographically.  The choice
\* depends only on the share of parseable values, not on which rows come
\* first.
C23_LineOrdering ==
    LineRequest
        => /\ last.res = "ready"
           /\ plot_frame.kind = "line"
           /\ plot_frame.rows = Series(PriorityOrder, x_column, y_column)

\* C24: a line or scatter request never reaches Ready with fewer than 2
\* usable rows: whenever fewer than 2 rows remain after cleaning or after
\* the line-ordering drops, the request ends in Failed with an
\* insufficient-data error.
C24_TwoUsableRows ==
    (RequestReached /\ RequestedKind(chart_type) \in {"line", "scatter"} /\ Convertible(y_column))
        => /\ last.res = "ready" => Len(plot_frame.rows) >= 2
           /\ FrameLen(UsableRows) < 2
                  => /\ last.res = "failed"
                     /\ msg \in {"not_enough_points", "not_enough_points_after"}

(***************************************************************************)
(* Further properties of the view specification.                            *)
(***************************************************************************)
\* a search whose term is not empty after stripping and matches no row
NoMatchSearch ==
    /\ last.op = "search_data"
    /\ last.res = "no_match"

\* C30: a search whose non-empty term matches no row is reported as an
\* empty result and changes nothing: the filter that was active (or the
\* absence of one), the page index, total_pages and the rows on display
\* are as before, and no empty filter is installed.  A search with an
\* empty term is a different outcome: nothing is reported and the first
\* page of the whole table is displayed.
C30_NoMatchSearch ==
    [][/\ NoMatchSearch'
          => /\ msg' = "no_match"
             /\ UNCHANGED <<filtered_df, current_page, total_pages, rows_per_page, tree,
                            df, sampled_df>>
             /\ filtered_df'.some => FrameLen(filtered_df') > 0
       /\ (last'.op = "search_data" /\ last'.res = "shown_all")
          => /\ msg' # "no_match"
             /\ current_page' = 0
             /\ tree' = UpdateDataView(df, 0, rows_per_page)]_vars

\* a search without a match was made while a filter was active on a later
\* page
C30_Witness ==
    /\ NoMatchSearch
    /\ msg = "no_match"
    /\ filtered_df.some
    /\ current_page > 0

(***************************************************************************)
(* Properties of the recommendation.                                        *)
(***************************************************************************)
\* suggest_visualization has just stored a recommendation in chart_type
Recommended ==
    /\ last.op = "suggest_visualization"
    /\ last.res = "recommended"

\* C27: after suggest_visualization recommends a kind k, a create_plot
\* request made with the chart-kind selection left as it is prepares a
\* chart of kind k: the value stored in chart_type is one that create_plot
\* resolves to the recommended kind, and a chart that is displayed while
\* chart_type holds the name of a recommended kind is of that kind.
C27_RecommendedKind ==
    /\ Recommended
           => ResolveChartType(chart_type) = Recommend(df, x_column, y_column).kind
    /\ (/\ last.op = "create_plot"
        /\ last.res = "ready"
        /\ chart_type \in {"bar", "pie", "scatter", "histogram"})
           => plot_frame.kind = chart_type

(***************************************************************************)
(* Properties of the row sample.                                            *)
(***************************************************************************)
\* the table a request works on
WorkRows == WorkTable(df, sampled_df)

\* the row of table d that carries the index label of row i of table w
SameRow(w, i, d) ==
    LET j == w.index[i] + 1
    IN  /\ j \in 1..FrameLen(d)
        /\ d.index[j] = w.index[i]
        /\ d.data[j] = w.data[i]

\* C28: every create_plot request works on rows of the active table: after
\* the table was replaced by load_csv or load_from_db, no request uses the
\* row sample that was taken from a table loaded before.
C28_ActiveTableRows ==
    (last.op = "create_plot" /\ last.res # "invalid")
        => /\ WorkRows.columns = df.columns
           /\ \A i \in 1..FrameLen(WorkRows) : SameRow(WorkRows, i, df)

\* the row sample load_csv takes of table d
SampleOf(d) == IF FrameLen(d) > SampleCap THEN Sample(d, SampleCap) ELSE None

\* the answers of the last request
LastAnswers ==
    [count |-> last.arg.count, top |-> last.arg.top, outlier |-> last.arg.outlier]

\* the chart a request with the selection and the answers of the last one
\* prepares when nothing but the active table was loaded before it, by
\* load_csv (with its row sample) or by load_from_db (without one)
FreshCharts ==
    {Prepare(df, sd, x_column, y_column, chart_type, NoPlot, LastAnswers).plot :
        sd \in {SampleOf(df), None}}

\* C26: preparation is deterministic and memoryless: two create_plot
\* requests with the same table, the same x and y selection, the same
\* chart kind and the same answers yield the same prepared rows, including
\* the same 1000-row subset, whatever ran in between: the chart of a
\* request is the chart the same request yields right after the table was
\* loaded.
C26_Memoryless ==
    (last.op = "create_plot" /\ last.res = "ready") => plot_frame \in FreshCharts

(***************************************************************************)
(* Properties of the sharing specification.                                 *)
(***************************************************************************)
\* the handlers that load a table
Loaders == {"load_csv", "load_from_db"}

\* C25: no operation mutates the shared table in place: whatever sequence
\* of create_plot requests (every chart kind and every outlier policy, the
\* percentile fallback included), suggest_visualization, search_data,
\* clear_search and paging steps is run, the active table and the row
\* sample taken when it was loaded keep the values they had after loading.
C25_SharedReadOnly ==
    [][last'.op \notin Loaders => UNCHANGED <<df, sampled_df>>]_vars

\* a chart was drawn from the row sample and the table was searched and
\* paged afterwards
C25_Witness ==
    /\ sampled_df.some
    /\ sampled_df = SampleOf(df)
    /\ plot_frame.kind # "none"
    /\ filtered_df.some
    /\ current_page > 0

\* the percentile fallback ran on the table of scenario A
C25_WitnessFallback ==
    /\ df = ScenarioA
    /\ last.op = "create_plot"
    /\ last.arg.outlier = "remove"
    /\ plot_frame.removed = 2

\* a request for a chart kind other than line and scatter
UncappedRequest ==
    /\ RequestReached
    /\ RequestedKind(chart_type) \in {"bar", "pie", "histogram", "heatmap"}

\* C29: bar, pie, histogram and heatmap requests have no row cap: the group
\* means, pie sums, histogram bins and pivot cells are computed over all
\* cleaned rows of the active table, also when it has more than 1000 rows.
C29_NoRowCap ==
    UncappedRequest
        => \E o \in {Prepare(df, None, x_column, y_column, chart_type, NoPlot, LastAnswers)} :
               /\ last.res = o.res
               /\ last.res = "ready" => plot_frame = o.plot
               /\ last.arg.pie = PieDrawn(df, None, x_column, y_column, LastAnswers, o)

=============================================================================
